---- MODULE Spec2Model ----
(***************************************************************************)
(* A model of the command-execution and result-aggregation core of the    *)
(* KubeStellar MCP server:                                                 *)
(*   utils/command_executor.py      CommandExecutor.run_command            *)
(*   utils/kubectl_helper.py        KubectlHelper                          *)
(*   tools/kubestellar_status/status_checker.py                            *)
(*   tools/kubestellar_status/diagnostics.py                               *)
(* Text is modelled as a sequence of one-character strings, so that the    *)
(* substring tests, line splitting and trimming of the code are computed.  *)
(***************************************************************************)
EXTENDS Integers, Sequences, FiniteSets, TLC

VARIABLES
    \* ---- CommandExecutor.run_command, one call followed step by step
    runPc,        \* "idle" | "spawn" | "wait" | "communicated" | "returned" | "raised"
    command,      \* argv of the call
    timeout,      \* the timeout argument, in seconds
    elapsed,      \* seconds waited in asyncio.wait_for
    procState,    \* the external process: "none" | "running" | "exited"
    procExit,     \* what the process left behind when it exited
    caught,       \* the exception the call ran into, or NoException
    result,       \* the returned triple <<return_code, stdout, stderr>>, or NoResult
    \* ---- KubeStellarStatusChecker.check_kubestellar_status
    scPc,         \* "idle" | "loop" | "done"
    contexts,     \* the list get_contexts returned
    scIdx,        \* position of the for loop in contexts
    status,       \* the status dictionary being built
    cmdLog,       \* the commands issued so far, in order
    seen,         \* per examined context: what the probes returned
    \* ---- DiagnosticsRunner.diagnose_issues
    dgPc,         \* "idle" | "loop" | "done" | "raised"
    dgIdx,        \* position of the for loop in checks
    diagnostics,  \* the diagnostics dictionary being built
    dgRaised,     \* the names of the checks that raised, in order
    \* ---- ClusterManager.get_cluster_info
    cmPc,         \* "idle" | "single" | "loop" | "done"
    cmArg,        \* the context argument (empty: none given)
    cmContexts,   \* the list get_contexts returned
    cmIdx,        \* position of the for loop in cmContexts
    cmResult,     \* the result dictionary being built
    cmLog,        \* the commands issued so far, in order
    cmProbed,     \* per examined context: whether its cluster-info probe succeeded
    \* ---- PrerequisitesChecker.check_prerequisites
    prPc,         \* "idle" | "tools" | "docker" | "recommend" | "done"
    prIdx,        \* position of the for loop in tools
    prResults,    \* the results dictionary being built
    prLog,        \* the commands issued so far, in order
    prFound,      \* per examined tool: whether it was on PATH and its version command succeeded
    prDockerPs,   \* what the docker ps probe said: "none" (not run) | "ok" | "failed"
    \* ---- DemoEnvironmentManager: create_demo_environment, cleanup_demo_environment
    dmPc,         \* "idle" | "tempfile" | "write" | "script" | "created" |
                  \* "clusters" | "contexts" | "cleaned"
    dmPlatform,   \* the platform argument
    dmResult,     \* the result dictionary of create_demo_environment
    dmFile,       \* the transient script file: "none" | "exists" | "removed"
    dmLog,        \* the commands issued so far, in order
    dmRaised,     \* whether an exception left one of the two calls
    clResult,     \* the result dictionary of cleanup_demo_environment
    clIdx,        \* position of the current for loop of cleanup_demo_environment
    clFailed,     \* how many cluster deletion commands failed
    \* ---- server.py: one request to handle_call_tool or handle_read_resource
    svPc,         \* "idle" | "awaiting" | "responded"
    svRequest,    \* the request: a tool name with arguments, or a resource URI
    svResponse,   \* what the handler gave back: a text, or a raised exception
    \* ---- the run_command calls of one diagnose_issues call
    sqPc,         \* "idle" | "running" | "done"
    sqPlan,       \* the run_command calls the operation makes, in program order
    sqIdx,        \* position of the coroutine in sqPlan
    sqInFlight,   \* the calls that have started and not returned
    sqRunning,    \* the calls whose external process is running
    \* ---- operation calls in flight together on the shared service objects
    ivPc,         \* per slot: "idle" | "loop" | "contexts" | "done"
    ivOp,         \* per slot: the operation running in it, or "none"
    ivLocal,      \* per slot: the other locals of the call (contexts, platform, loop index)
    ivReceived,   \* per slot: the command results the call has received, in order
    heap,         \* per cell: the report dictionary living there
    ivStarted,    \* how many calls have been started
    \* ---- KubectlHelper methods called on their own
    khPc,         \* "idle" | "returned"
    khCall,       \* the method called, its namespace argument, the command result it got
    khReturn      \* what the method returned

runnerVars == <<runPc, command, timeout, elapsed, procState, procExit, caught, result>>
statusVars == <<scPc, contexts, scIdx, status, cmdLog, seen>>
diagVars   == <<dgPc, dgIdx, diagnostics, dgRaised>>
clusterVars == <<cmPc, cmArg, cmContexts, cmIdx, cmResult, cmLog, cmProbed>>
prereqVars  == <<prPc, prIdx, prResults, prLog, prFound, prDockerPs>>
demoVars    == <<dmPc, dmPlatform, dmResult, dmFile, dmLog, dmRaised, clResult, clIdx, clFailed>>
serverVars  == <<svPc, svRequest, svResponse>>
seqVars     == <<sqPc, sqPlan, sqIdx, sqInFlight, sqRunning>>
callVars    == <<ivPc, ivOp, ivLocal, ivReceived, heap, ivStarted>>
helperVars  == <<khPc, khCall, khReturn>>
vars       == <<runnerVars, statusVars, diagVars, clusterVars, prereqVars, demoVars, serverVars,
               seqVars, callVars, helperVars>>

\* what the steps of one operation leave alone: the state of the others
outsideRunner  == <<statusVars, diagVars, clusterVars, prereqVars, demoVars, serverVars,
                   seqVars, callVars, helperVars>>
outsideStatus  == <<runnerVars, diagVars, clusterVars, prereqVars, demoVars, serverVars,
                   seqVars, callVars, helperVars>>
outsideDiag    == <<runnerVars, statusVars, clusterVars, prereqVars, demoVars, serverVars,
                   seqVars, callVars, helperVars>>
outsideCluster == <<runnerVars, statusVars, diagVars, prereqVars, demoVars, serverVars,
                   seqVars, callVars, helperVars>>
outsidePrereq  == <<runnerVars, statusVars, diagVars, clusterVars, demoVars, serverVars,
                   seqVars, callVars, helperVars>>
outsideDemo    == <<runnerVars, statusVars, diagVars, clusterVars, prereqVars, serverVars,
                   seqVars, callVars, helperVars>>
outsideServer  == <<runnerVars, statusVars, diagVars, clusterVars, prereqVars, demoVars,
                   seqVars, callVars, helperVars>>
outsideSeq     == <<runnerVars, statusVars, diagVars, clusterVars, prereqVars, demoVars,
                   serverVars, callVars, helperVars>>
outsideCalls   == <<runnerVars, statusVars, diagVars, clusterVars, prereqVars, demoVars,
                   serverVars, seqVars, helperVars>>
outsideHelper  == <<runnerVars, statusVars, diagVars, clusterVars, prereqVars, demoVars,
                   serverVars, seqVars, callVars>>

(***************************************************************************)
(* Text helpers                                                            *)
(***************************************************************************)
EmptyText == << >>

\* Python's `needle in haystack` on str
Contains(haystack, needle) ==
    \E i \in 1..(Len(haystack) - Len(needle) + 1) :
        SubSeq(haystack, i, i + Len(needle) - 1) = needle

\* what str.strip() removes
IsSpace(c) == c \in {" ", "\t", "\n", "\r"}

RECURSIVE LStrip(_)
LStrip(s) ==
    IF s # << >> /\ IsSpace(Head(s)) THEN LStrip(Tail(s)) ELSE s

RECURSIVE RStrip(_)
RStrip(s) ==
    IF s # << >> /\ IsSpace(s[Len(s)]) THEN RStrip(SubSeq(s, 1, Len(s) - 1)) ELSE s

\* str.strip()
Strip(s) == RStrip(LStrip(s))

\* str.split('\n'): the pieces between newlines, empty pieces kept
RECURSIVE SplitFrom(_, _, _)
SplitFrom(s, i, piece) ==
    IF i > Len(s) THEN << piece >>
    ELSE IF s[i] = "\n" THEN << piece >> \o SplitFrom(s, i + 1, << >>)
    ELSE SplitFrom(s, i + 1, Append(piece, s[i]))

SplitLines(s) == SplitFrom(s, 1, << >>)

\* [x.strip() for x in stdout.split('\n') if x.strip()]
RECURSIVE StripNonEmpty(_)
StripNonEmpty(pieces) ==
    IF pieces = << >> THEN << >>
    ELSE IF Strip(Head(pieces)) = << >> THEN StripNonEmpty(Tail(pieces))
    ELSE << Strip(Head(pieces)) >> \o StripNonEmpty(Tail(pieces))

ParseNameLines(stdout) == StripNonEmpty(SplitLines(stdout))

\* the text a command prints for a list of names: one name per line
RECURSIVE JoinLines(_)
JoinLines(names) ==
    IF names = << >> THEN << >>
    ELSE Head(names) \o << "\n" >> \o JoinLines(Tail(names))

(***************************************************************************)
(* CommandExecutor.run_command                                             *)
(***************************************************************************)
\* the largest of the small timeout arguments explored
MaxTimeout == 2

\* the default of the timeout parameter
DefaultTimeout == 300

\* the timeout arguments explored
Timeouts == 1..MaxTimeout \cup { DefaultTimeout }

NoResult == << >>
NoException == [type |-> "none"]

\* the argument vectors explored
Argvs ==
    { << "kubectl", "config", "get-contexts", "-o=name" >>,
      << "docker", "ps" >>,
      << "sleep", "1000" >>,
      << >> }

\* what a process that exits can leave: return code, stdout and stderr bytes
\* (decodable or not)
ProcExits ==
    { [returncode |-> 0, stdout |-> << "o", "k", "\n" >>, stderr |-> EmptyText, decodable |-> TRUE],
      [returncode |-> 0, stdout |-> EmptyText, stderr |-> EmptyText, decodable |-> TRUE],
      [returncode |-> 1, stdout |-> EmptyText, stderr |-> << "e", "r", "r" >>, decodable |-> TRUE],
      [returncode |-> 0, stdout |-> << "?" >>, stderr |-> EmptyText, decodable |-> FALSE] }

NoExit == [returncode |-> -1, stdout |-> EmptyText, stderr |-> EmptyText, decodable |-> TRUE]

\* str(e) of the exceptions the call can run into
ExcMessage(e) ==
    CASE e.type = "TimeoutError"       -> EmptyText
      [] e.type = "FileNotFoundError"  -> << "[Errno 2] No such file or directory: ", e.arg >>
      [] e.type = "PermissionError"    -> << "[Errno 13] Permission denied: ", e.arg >>
      [] e.type = "TypeError"          -> << "missing 1 required positional argument: 'program'" >>
      [] e.type = "UnicodeDecodeError" -> << "'utf-8' codec can't decode byte" >>
      [] OTHER                         -> << "error" >>

\* str(n) of a natural number: its decimal digits
RECURSIVE Digits(_)
Digits(n) ==
    LET d == << "0", "1", "2", "3", "4", "5", "6", "7", "8", "9" >>
    IN  IF n < 10 THEN << d[n + 1] >> ELSE Digits(n \div 10) \o << d[(n % 10) + 1] >>

\* f"Command timed out after {timeout} seconds"
TimeoutMessage(n) == << "Command timed out after " >> \o Digits(n) \o << " seconds" >>

\* a variant that has no clause for the timeout: it falls to `except Exception`
HandleException_NoTimeoutClause(e, n) ==
    [propagated |-> FALSE, value |-> << 1, EmptyText, ExcMessage(e) >>]

\* a variant whose only clause is the timeout's: anything else propagates
HandleException_NoCatchAll(e, n) ==
    IF e.type = "TimeoutError"
    THEN [propagated |-> FALSE, value |-> << 1, EmptyText, TimeoutMessage(n) >>]
    ELSE [propagated |-> TRUE, value |-> NoResult]

\* the two except clauses of run_command
HandleException(e, n) ==
    IF e.type = "TimeoutError"
    THEN [propagated |-> FALSE, value |-> << 1, EmptyText, TimeoutMessage(n) >>]
    ELSE [propagated |-> FALSE, value |-> << 1, EmptyText, ExcMessage(e) >>]

\* what asyncio.create_subprocess_exec(*command) can do for an argv
SpawnOutcomes(argv) ==
    IF argv = << >>
    THEN { [type |-> "TypeError"] }
    ELSE { NoException,
           [type |-> "FileNotFoundError", arg |-> argv[1]],
           [type |-> "PermissionError", arg |-> argv[1]] }

\* the return statement after communicate(): decode both streams
DecodeAndReturn(x) ==
    IF x.decodable
    THEN [exc |-> NoException, value |-> << x.returncode, x.stdout, x.stderr >>]
    ELSE [exc |-> [type |-> "UnicodeDecodeError"], value |-> NoResult]

RunnerIdle ==
    /\ runPc = "idle"
    /\ command = << >>
    /\ timeout = 0
    /\ elapsed = 0
    /\ procState = "none"
    /\ procExit = NoExit
    /\ caught = NoException
    /\ result = NoResult

\* a caller invokes run_command(command, timeout)
RunCall ==
    /\ runPc = "idle"
    /\ \E argv \in Argvs, n \in Timeouts :
          /\ command' = argv
          /\ timeout' = n
    /\ runPc' = "spawn"
    /\ UNCHANGED <<elapsed, procState, procExit, caught, result>>
    /\ UNCHANGED outsideRunner

\* the outcome of leaving the try block through an exception
Leave(e) ==
    LET h == HandleException(e, timeout)
    IN  /\ caught' = e
        /\ result' = h.value
        /\ runPc' = IF h.propagated THEN "raised" ELSE "returned"

\* create_subprocess_exec starts the process
SpawnStarts ==
    /\ runPc = "spawn"
    /\ NoException \in SpawnOutcomes(command)
    /\ procState' = "running"
    /\ runPc' = "wait"
    /\ UNCHANGED <<command, timeout, elapsed, procExit, caught, result>>
    /\ UNCHANGED outsideRunner

\* create_subprocess_exec raises: nothing was started
SpawnFails ==
    /\ runPc = "spawn"
    /\ \E e \in SpawnOutcomes(command) \ {NoException} : Leave(e)
    /\ UNCHANGED <<command, timeout, elapsed, procState, procExit>>
    /\ UNCHANGED outsideRunner

\* a second passes while wait_for(process.communicate()) is pending
Tick ==
    /\ runPc = "wait"
    /\ procState = "running"
    /\ elapsed < timeout
    /\ elapsed' = elapsed + 1
    /\ UNCHANGED <<runPc, command, timeout, procState, procExit, caught, result>>
    /\ UNCHANGED outsideRunner

\* the process exits while the call waits for it
ProcExitsInTime ==
    /\ runPc = "wait"
    /\ procState = "running"
    /\ \E x \in ProcExits : procExit' = x
    /\ procState' = "exited"
    /\ runPc' = "communicated"
    /\ UNCHANGED <<command, timeout, elapsed, caught, result>>
    /\ UNCHANGED outsideRunner

\* communicate() is done: decode, log, return
RunReturn ==
    /\ runPc = "communicated"
    /\ LET d == DecodeAndReturn(procExit)
       IN  IF d.exc = NoException
           THEN /\ result' = d.value
                /\ runPc' = "returned"
                /\ UNCHANGED caught
           ELSE Leave(d.exc)
    /\ UNCHANGED <<command, timeout, elapsed, procState, procExit>>
    /\ UNCHANGED outsideRunner

\* the timeout expires with the process still running: wait_for cancels
\* communicate() and raises TimeoutError; nothing signals the process
TimeoutExpires ==
    /\ runPc = "wait"
    /\ procState = "running"
    /\ elapsed = timeout
    /\ Leave([type |-> "TimeoutError"])
    /\ UNCHANGED <<command, timeout, elapsed, procState, procExit>>
    /\ UNCHANGED outsideRunner

\* a process left running by a timed-out call ends on its own, later
OrphanExits ==
    /\ runPc \in {"returned", "raised"}
    /\ procState = "running"
    /\ \E x \in ProcExits : procExit' = x
    /\ procState' = "exited"
    /\ UNCHANGED <<runPc, command, timeout, elapsed, caught, result>>
    /\ UNCHANGED outsideRunner

(***************************************************************************)
(* KubectlHelper                                                           *)
(***************************************************************************)
\* the result triple of one run_command call, as the callers unpack it
CommandResult(rc, out, err) == [returncode |-> rc, stdout |-> out, stderr |-> err]

\* a command that could not run, failed or timed out: run_command's `1, "", message`
FailedResult == CommandResult(1, EmptyText, << "e", "r", "r" >>)

\* a variant that parses stdout whatever the exit code
get_contexts_IgnoresExitCode(r) == ParseNameLines(r.stdout)

\* KubectlHelper.get_contexts, given the result of `kubectl config get-contexts -o=name`
get_contexts(r) ==
    IF r.returncode = 0 THEN ParseNameLines(r.stdout) ELSE << >>

\* a variant that forgets the literal-name test
check_namespace_ExitCodeOnly(namespace, r) == r.returncode = 0

\* KubectlHelper.check_namespace, given the result of `kubectl get ns <namespace> ...`
check_namespace(namespace, r) ==
    r.returncode = 0 /\ Contains(r.stdout, namespace)

\* the commands get_cluster_info and check_namespace issue, as log entries
KubectlCmd(verb, context, namespace) ==
    [tool |-> "kubectl", verb |-> verb, context |-> context, namespace |-> namespace]

\* KubectlHelper.get_cluster_info, given the results of the (up to) three commands
\* it issues: cluster-info, get nodes, get namespaces
get_cluster_info(context, probe, nodes, namespaces) ==
    IF probe.returncode = 0
    THEN [info |-> [context |-> context,
                    accessible |-> TRUE,
                    nodes |-> IF nodes.returncode = 0
                              THEN ParseNameLines(nodes.stdout) ELSE << >>,
                    namespaces |-> IF namespaces.returncode = 0
                                   THEN ParseNameLines(namespaces.stdout) ELSE << >>],
          cmds |-> << KubectlCmd("cluster-info", context, EmptyText),
                      KubectlCmd("get nodes", context, EmptyText),
                      KubectlCmd("get namespaces", context, EmptyText) >>]
    ELSE [info |-> [context |-> context, accessible |-> FALSE,
                    nodes |-> << >>, namespaces |-> << >>],
          cmds |-> << KubectlCmd("cluster-info", context, EmptyText) >>]

(***************************************************************************)
(* KubeStellarStatusChecker.check_kubestellar_status                       *)
(***************************************************************************)
\* the longest context list explored
MaxContexts == 3

KindFoo  == << "k", "i", "n", "d", "-", "f", "o", "o" >>
Prod     == << "p", "r", "o", "d" >>
K3dA     == << "k", "3", "d", "-", "a" >>
Kubeflex == << "k", "u", "b", "e", "f", "l", "e", "x" >>

\* the context names of the explored kubeconfigs
ContextNames == { KindFoo, Prod, K3dA, Kubeflex }

Wds1System == << "w", "d", "s", "1", "-", "s", "y", "s", "t", "e", "m" >>
Its1System == << "i", "t", "s", "1", "-", "s", "y", "s", "t", "e", "m" >>

\* kubeconfig context names are unique: the lists without repetition
ContextLists ==
    { s \in UNION { [1..k -> ContextNames] : k \in 0..MaxContexts } :
        \A i, j \in DOMAIN s : i # j => s[i] # s[j] }

\* the results `kubectl config get-contexts -o=name` can give
GetContextsResults ==
    { CommandResult(0, JoinLines(l), EmptyText) : l \in ContextLists } \cup { FailedResult }

\* the results `kubectl cluster-info --context <ctx>` can give
ClusterInfoResults ==
    { CommandResult(0, << "r", "u", "n", "n", "i", "n", "g", "\n" >>, EmptyText), FailedResult }

\* the results `kubectl get nodes/namespaces --context <ctx> -o=name` can give
NameListResults ==
    { CommandResult(0, << "n", "/", "a", "\n" >>, EmptyText), FailedResult }

\* the results `kubectl get ns <namespace> --context <ctx> --ignore-not-found` can give:
\* the namespace's line, nothing (ignored as not found), a failure
GetNsResults(namespace) ==
    { CommandResult(0, << "N", "A", "M", "E", "\n" >> \o namespace \o << " ", "A", "c", "t", "i", "v", "e", "\n" >>, EmptyText),
      CommandResult(0, EmptyText, EmptyText),
      FailedResult }

compatible_types ==
    { << "k", "u", "b", "e", "f", "l", "e", "x" >>, << "k", "i", "n", "d" >>, << "k", "3", "d" >> }

\* any(ctx_type in ctx for ctx_type in compatible_types)
is_compatible(ctx) == \E ctx_type \in compatible_types : Contains(ctx, ctx_type)

\* a dict with one more (or one replaced) key
DictPut(d, k, v) == [x \in DOMAIN d \cup {k} |-> IF x = k THEN v ELSE d[x]]

EmptyDict == [x \in {} |-> FALSE]

\* the message texts, by kind, with the values formatted into them
Message(kind, ctx, missing) == [kind |-> kind, context |-> ctx, missing |-> missing]

InitialStatus ==
    [context |-> EmptyText,
     context_found |-> FALSE,
     wds1_namespace |-> FALSE,
     its1_namespace |-> FALSE,
     all_ready |-> FALSE,
     message |-> Message("No compatible KubeStellar context found", EmptyText, << >>),
     compatible_contexts |-> << >>,
     cluster_info |-> EmptyDict]

\* what the probes of one context returned
Seen(accessible, probed, wds1, its1) ==
    [accessible |-> accessible, probed |-> probed, wds1 |-> wds1, its1 |-> its1]

\* a variant of the ready branch that leaves all_ready as it was
ReadyStatus_AllReadyUnset(st, ctx) ==
    [st EXCEPT !.context = ctx,
               !.context_found = TRUE,
               !.wds1_namespace = TRUE,
               !.its1_namespace = TRUE,
               !.message = Message("KubeStellar ready on context", ctx, << >>)]

\* status.update({...}) of the ready branch
ReadyStatus(st, ctx) ==
    [st EXCEPT !.context = ctx,
               !.context_found = TRUE,
               !.wds1_namespace = TRUE,
               !.its1_namespace = TRUE,
               !.all_ready = TRUE,
               !.message = Message("KubeStellar ready on context", ctx, << >>)]

\* a variant of the partial branch that stores the two answers the wrong way round
PartialStatus_Swapped(st, ctx, wds1_exists, its1_exists) ==
    LET missing_namespaces ==
            (IF ~wds1_exists THEN << Wds1System >> ELSE << >>)
            \o (IF ~its1_exists THEN << Its1System >> ELSE << >>)
    IN  [st EXCEPT !.context = ctx,
                   !.context_found = TRUE,
                   !.wds1_namespace = its1_exists,
                   !.its1_namespace = wds1_exists,
                   !.message = Message("Compatible context found, but missing namespaces",
                                       ctx, missing_namespaces)]

\* status.update({...}) of the partial branch, with its missing_namespaces list
PartialStatus(st, ctx, wds1_exists, its1_exists) ==
    LET missing_namespaces ==
            (IF ~wds1_exists THEN << Wds1System >> ELSE << >>)
            \o (IF ~its1_exists THEN << Its1System >> ELSE << >>)
    IN  [st EXCEPT !.context = ctx,
                   !.context_found = TRUE,
                   !.wds1_namespace = wds1_exists,
                   !.its1_namespace = its1_exists,
                   !.message = Message("Compatible context found, but missing namespaces",
                                       ctx, missing_namespaces)]

\* the two check_namespace calls of the loop body, as log entries
NamespaceCmds(ctx) ==
    << KubectlCmd("get ns", ctx, Wds1System), KubectlCmd("get ns", ctx, Its1System) >>

\* the outcome of one loop iteration: the status, the commands issued, whether the
\* function returned, and what the probes said
Iteration(st, cmds, returned, sn) ==
    [status |-> st, cmds |-> cmds, returned |-> returned, seen |-> sn]

\* a variant without the early return of the ready branch: a ready context is
\* recorded and the loop goes on
CompatibleBody_NoEarlyReturn(st, ctx, ci, wds1_exists, its1_exists) ==
    LET st1 == [st EXCEPT !.compatible_contexts = Append(@, ctx),
                          !.cluster_info = DictPut(@, ctx, ci.info)]
        sn == Seen(TRUE, TRUE, wds1_exists, its1_exists)
    IN  IF ~ci.info.accessible
        THEN Iteration(st1, ci.cmds, FALSE, Seen(FALSE, FALSE, FALSE, FALSE))
        ELSE IF wds1_exists /\ its1_exists
        THEN Iteration(ReadyStatus(st1, ctx), ci.cmds \o NamespaceCmds(ctx), FALSE, sn)
        ELSE IF ~st1.context_found
        THEN Iteration(PartialStatus(st1, ctx, wds1_exists, its1_exists),
                       ci.cmds \o NamespaceCmds(ctx), FALSE, sn)
        ELSE Iteration(st1, ci.cmds \o NamespaceCmds(ctx), FALSE, sn)

\* a variant that overwrites the partial status unconditionally (last one wins)
CompatibleBody_Overwrite(st, ctx, ci, wds1_exists, its1_exists) ==
    LET st1 == [st EXCEPT !.compatible_contexts = Append(@, ctx),
                          !.cluster_info = DictPut(@, ctx, ci.info)]
        sn == Seen(TRUE, TRUE, wds1_exists, its1_exists)
    IN  IF ~ci.info.accessible
        THEN Iteration(st1, ci.cmds, FALSE, Seen(FALSE, FALSE, FALSE, FALSE))
        ELSE IF wds1_exists /\ its1_exists
        THEN Iteration(ReadyStatus(st1, ctx), ci.cmds \o NamespaceCmds(ctx), TRUE, sn)
        ELSE Iteration(PartialStatus(st1, ctx, wds1_exists, its1_exists),
                       ci.cmds \o NamespaceCmds(ctx), FALSE, sn)

\* the body of `for ctx in contexts` for a compatible context ctx, given the
\* cluster info and the two check_namespace answers (asked only when accessible)
CompatibleBody(st, ctx, ci, wds1_exists, its1_exists) ==
    LET st1 == [st EXCEPT !.compatible_contexts = Append(@, ctx),
                          !.cluster_info = DictPut(@, ctx, ci.info)]
        sn == Seen(TRUE, TRUE, wds1_exists, its1_exists)
    IN  IF ~ci.info.accessible
        THEN Iteration(st1, ci.cmds, FALSE, Seen(FALSE, FALSE, FALSE, FALSE))
        ELSE IF wds1_exists /\ its1_exists
        THEN Iteration(ReadyStatus(st1, ctx), ci.cmds \o NamespaceCmds(ctx), TRUE, sn)
        ELSE IF ~st1.context_found
        THEN Iteration(PartialStatus(st1, ctx, wds1_exists, its1_exists),
                       ci.cmds \o NamespaceCmds(ctx), FALSE, sn)
        ELSE Iteration(st1, ci.cmds \o NamespaceCmds(ctx), FALSE, sn)

StatusIdle ==
    /\ scPc = "idle"
    /\ contexts = << >>
    /\ scIdx = 1
    /\ status = InitialStatus
    /\ cmdLog = << >>
    /\ seen = EmptyDict

\* check_kubestellar_status is called: the status dict is built, get_contexts runs
StatusStart ==
    /\ scPc = "idle"
    /\ \E r \in GetContextsResults : contexts' = get_contexts(r)
    /\ scPc' = "loop"
    /\ cmdLog' = << KubectlCmd("config get-contexts", EmptyText, EmptyText) >>
    /\ UNCHANGED <<scIdx, status, seen>>
    /\ UNCHANGED outsideStatus

\* one iteration of `for ctx in contexts` on a context that is not compatible
StatusSkip ==
    /\ scPc = "loop"
    /\ scIdx <= Len(contexts)
    /\ ~is_compatible(contexts[scIdx])
    /\ scIdx' = scIdx + 1
    /\ UNCHANGED <<scPc, contexts, status, cmdLog, seen>>
    /\ UNCHANGED outsideStatus

\* one iteration of `for ctx in contexts` on a compatible context (no call of the
\* body raises: run_command returns its failures, so the except clause of
\* check_kubestellar_status is never entered)
StatusProbe ==
    /\ scPc = "loop"
    /\ scIdx <= Len(contexts)
    /\ is_compatible(contexts[scIdx])
    /\ \E probe \in ClusterInfoResults, nodes \in NameListResults, namespaces \in NameListResults,
          wds \in GetNsResults(Wds1System), its \in GetNsResults(Its1System) :
          LET ctx == contexts[scIdx]
              b == CompatibleBody(status, ctx,
                                  get_cluster_info(ctx, probe, nodes, namespaces),
                                  check_namespace(Wds1System, wds),
                                  check_namespace(Its1System, its))
          IN  /\ status' = b.status
              /\ cmdLog' = cmdLog \o b.cmds
              /\ seen' = DictPut(seen, ctx, b.seen)
              /\ scPc' = IF b.returned THEN "done" ELSE "loop"
              /\ scIdx' = IF b.returned THEN scIdx ELSE scIdx + 1
    /\ UNCHANGED contexts
    /\ UNCHANGED outsideStatus

\* the loop is over: the no-compatible-contexts message, and return
StatusFinish ==
    /\ scPc = "loop"
    /\ scIdx > Len(contexts)
    /\ status' = IF status.compatible_contexts = << >>
                 THEN [status EXCEPT !.message =
                          Message("No compatible KubeStellar contexts found. Looking for ...", EmptyText, << >>)]
                 ELSE status
    /\ scPc' = "done"
    /\ UNCHANGED <<contexts, scIdx, cmdLog, seen>>
    /\ UNCHANGED outsideStatus

(***************************************************************************)
(* DiagnosticsRunner                                                       *)
(***************************************************************************)
\* the longest context list explored in the diagnostics checks
MaxDiagContexts == 2

Cluster1 == << "c", "l", "u", "s", "t", "e", "r", "1" >>
Wds1Ctx  == << "w", "d", "s", "1" >>

\* the context names of the kubeconfigs explored in the diagnostics checks
DiagContextNames == { KindFoo, Prod, Cluster1, Wds1Ctx }

DiagContextLists ==
    { s \in UNION { [1..k -> DiagContextNames] : k \in 0..MaxDiagContexts } :
        \A i, j \in DOMAIN s : i # j => s[i] # s[j] }

DiagGetContextsResults ==
    { CommandResult(0, JoinLines(l), EmptyText) : l \in DiagContextLists } \cup { FailedResult }

\* `sep.join(names)`
RECURSIVE JoinWith(_, _)
JoinWith(names, sep) ==
    IF names = << >> THEN << >>
    ELSE IF Len(names) = 1 THEN Head(names)
    ELSE Head(names) \o sep \o JoinWith(Tail(names), sep)

\* the contexts whose name contains one of the markers, in order
Matching(ctxs, markers) ==
    SelectSeq(ctxs, LAMBDA c : \E m \in markers : Contains(c, m))

\* a check result {"status": ..., "message": ...}
Result2(st, msg) == [status |-> st, message |-> msg]

\* a check result after result.update({... "issues": ..., "recommendations": ...})
Result4(st, msg, issues, recs) ==
    [status |-> st, message |-> msg, issues |-> issues, recommendations |-> recs]

\* a check that returned `value`
Returned(value) == [raised |-> FALSE, value |-> value]

\* a check that raised an exception e whose str(e) is `text`
Raised(text) == [raised |-> TRUE, value |-> [str |-> text]]

\* a variant that starts every result with empty issues and recommendations lists
_check_docker_status_WithEmptyLists(r) ==
    IF r.returncode # 0
    THEN Result4("fail", << "Docker is not running or not accessible" >>,
                 << << "Docker daemon is not running" >> >>,
                 << << "Start Docker daemon: sudo systemctl start docker" >> >>)
    ELSE Result4("pass", << "Docker is running" >>, << >>, << >>)

\* DiagnosticsRunner._check_docker_status, given the result of `docker ps`
_check_docker_status(r) ==
    IF r.returncode # 0
    THEN Result4("fail", << "Docker is not running or not accessible" >>,
                 << << "Docker daemon is not running" >> >>,
                 << << "Start Docker daemon: sudo systemctl start docker" >> >>)
    ELSE Result2("pass", << "Docker is running" >>)

\* DiagnosticsRunner._check_kubectl_access, given the result of `kubectl version --client`
_check_kubectl_access(r) ==
    IF r.returncode # 0
    THEN Result4("fail", << "kubectl is not accessible" >>,
                 << << "kubectl is not installed or not in PATH" >> >>,
                 << << "Install kubectl: https://kubernetes.io/docs/tasks/tools/install-kubectl/" >> >>)
    ELSE Result2("pass", << "kubectl is accessible" >>)

ContextMarkers ==
    { << "k", "u", "b", "e", "f", "l", "e", "x" >>, << "k", "i", "n", "d" >>, << "k", "3", "d" >>, << "w", "d", "s" >>, << "i", "t", "s" >> }

\* DiagnosticsRunner._check_kubestellar_contexts, given the get_contexts result
_check_kubestellar_contexts(r) ==
    LET kubestellar_contexts == Matching(get_contexts(r), ContextMarkers)
    IN  IF kubestellar_contexts = << >>
        THEN Result4("warning", << "No KubeStellar contexts found" >>,
                     << << "No contexts containing 'kubeflex', 'kind', 'k3d', 'wds', or 'its' found" >> >>,
                     << << "Run KubeStellar installation or demo environment setup" >> >>)
        ELSE Result2("pass",
                     << "Found " >> \o Digits(Len(kubestellar_contexts))
                     \o << " KubeStellar contexts: " >> \o JoinWith(kubestellar_contexts, << ", " >>))

required_namespaces == << Wds1System, Its1System >>

\* DiagnosticsRunner._check_kubestellar_namespaces, given the get_contexts result and,
\* per compatible context, the results of the two `kubectl get ns` commands
_check_kubestellar_namespaces(r, ns) ==
    LET ctxs == Matching(get_contexts(r), compatible_types)
        found_namespaces ==
            [c \in { ctxs[i] : i \in DOMAIN ctxs } |->
                [i \in DOMAIN required_namespaces |->
                    check_namespace(required_namespaces[i], ns[c][i])]]
        missing_any ==
            \E c \in DOMAIN found_namespaces :
                \E i \in DOMAIN required_namespaces : ~found_namespaces[c][i]
    IN  IF DOMAIN found_namespaces = {}
        THEN [status |-> "warning",
              message |-> << "No KubeStellar contexts to check namespaces in" >>,
              issues |-> << << "No suitable contexts found for namespace checking" >> >>]
        ELSE IF missing_any
        THEN Result4("warning", << "Some KubeStellar namespaces are missing" >>,
                     << << "Required KubeStellar namespaces not found in some contexts" >> >>,
                     << << "Complete KubeStellar installation to create missing namespaces" >> >>)
        ELSE Result2("pass", << "KubeStellar namespaces found" >>)

ConnectivityMarkers ==
    { << "k", "u", "b", "e", "f", "l", "e", "x" >>, << "k", "i", "n", "d" >>, << "k", "3", "d" >>, << "c", "l", "u", "s", "t", "e", "r" >> }

\* DiagnosticsRunner._check_cluster_connectivity, given the get_contexts result and,
\* per matching context, the result of `kubectl cluster-info --context <ctx>`
_check_cluster_connectivity(r, probe) ==
    LET ctxs == Matching(get_contexts(r), ConnectivityMarkers)
        inaccessible == SelectSeq(ctxs, LAMBDA c : probe[c].returncode # 0)
    IN  IF inaccessible # << >>
        THEN Result4("warning",
                     << "Some clusters are not accessible: " >> \o JoinWith(inaccessible, << ", " >>),
                     << << "Cannot connect to clusters: " >> \o JoinWith(inaccessible, << ", " >>) >>,
                     << << "Check if clusters are running and kubeconfig is correct" >> >>)
        ELSE Result2("pass", << "All clusters are accessible" >>)

\* DiagnosticsRunner._check_port_conflicts, given the result of `lsof -i tcp:9443`
_check_port_conflicts(r) ==
    IF r.returncode = 0
    THEN Result4("warning", << "Port conflicts detected on: [9443]" >>,
                 << << "Ports [9443] are in use" >> >>,
                 << << "Stop services using these ports or use different ports" >> >>)
    ELSE Result2("pass", << "No port conflicts detected" >>)

\* str.split(): the pieces between runs of whitespace
RECURSIVE SplitWsFrom(_, _, _)
SplitWsFrom(s, i, piece) ==
    LET done == IF piece = << >> THEN << >> ELSE << piece >>
    IN  IF i > Len(s) THEN done
        ELSE IF IsSpace(s[i]) THEN done \o SplitWsFrom(s, i + 1, << >>)
        ELSE SplitWsFrom(s, i + 1, Append(piece, s[i]))

SplitWs(s) == SplitWsFrom(s, 1, << >>)

AsciiDigits == << "0", "1", "2", "3", "4", "5", "6", "7", "8", "9" >>

\* U+00B2 SUPERSCRIPT TWO: str.isdigit() accepts it, int() does not
SuperscriptTwo == "^2"

IsAsciiDigit(c) == \E i \in DOMAIN AsciiDigits : AsciiDigits[i] = c

\* str.isdigit()
IsDigitStr(tok) ==
    tok # << >> /\ \A i \in DOMAIN tok : IsAsciiDigit(tok[i]) \/ tok[i] = SuperscriptTwo

DigitValue(c) == (CHOOSE i \in DOMAIN AsciiDigits : AsciiDigits[i] = c) - 1

RECURSIVE DecimalValue(_)
DecimalValue(tok) ==
    IF tok = << >> THEN 0
    ELSE 10 * DecimalValue(SubSeq(tok, 1, Len(tok) - 1)) + DigitValue(tok[Len(tok)])

\* int(tok) for a token of split(): an optional sign and decimal digits, ValueError
\* (ok = FALSE) otherwise
PyInt(tok) ==
    LET signed == tok # << >> /\ Head(tok) \in {"+", "-"}
        digits == IF signed THEN Tail(tok) ELSE tok
    IN  IF digits # << >> /\ \A i \in DOMAIN digits : IsAsciiDigit(digits[i])
        THEN [ok |-> TRUE,
              value |-> IF signed /\ Head(tok) = "-"
                        THEN 0 - DecimalValue(digits) ELSE DecimalValue(digits)]
        ELSE [ok |-> FALSE, value |-> 0]

\* str.replace('%', '')
DropPercent(tok) == SelectSeq(tok, LAMBDA c : c # "%")

\* str.lower() on the letters the explored outputs hold
LowerChar(c) ==
    CASE c = "A" -> "a" [] c = "V" -> "v" [] c = "I" -> "i" [] c = "L" -> "l"
      [] c = "B" -> "b" [] c = "E" -> "e" [] c = "M" -> "m" [] OTHER -> c

Lower(s) == [i \in DOMAIN s |-> LowerChar(s[i])]

\* the disk part: the issue found in the output of `df -h /`, if any
DiskIssue(df) ==
    IF df.returncode # 0 THEN << >>
    ELSE LET lines == SplitLines(Strip(df.stdout))
         IN  IF Len(lines) <= 1 THEN << >>
             ELSE LET fields == SplitWs(lines[2])
                  IN  IF Len(fields) < 5 THEN << >>
                      ELSE LET usage_percent == DropPercent(fields[5])
                           IN  IF PyInt(usage_percent).ok /\ PyInt(usage_percent).value > 90
                               THEN << << "Disk usage is high: " >> \o usage_percent \o << "%" >> >>
                               ELSE << >>

\* any(int(x) < 1000 for x in tokens if x.isdigit() and int(x) > 100):
\* "true", "false", or "raise" when an int() call raises ValueError on the way
RECURSIVE AnyLow(_)
AnyLow(tokens) ==
    IF tokens = << >> THEN "false"
    ELSE LET x == Head(tokens)
         IN  IF ~IsDigitStr(x) THEN AnyLow(Tail(tokens))
             ELSE IF ~PyInt(x).ok THEN "raise"
             ELSE IF PyInt(x).value > 100 /\ PyInt(x).value < 1000 THEN "true"
             ELSE AnyLow(Tail(tokens))

\* the memory part: "true" (low), "false", or "raise", from the output of `free -m`
MemoryLow(free) ==
    IF free.returncode # 0 THEN "false"
    ELSE IF Len(SplitLines(Strip(free.stdout))) <= 1 THEN "false"
    ELSE IF ~Contains(Lower(free.stdout), << "a", "v", "a", "i", "l", "a", "b", "l", "e" >>) THEN "false"
    ELSE AnyLow(SplitWs(free.stdout))

\* DiagnosticsRunner._check_resource_availability, given the results of `df -h /`
\* and `free -m`
_check_resource_availability(df, free) ==
    LET mem == MemoryLow(free)
        issues == DiskIssue(df)
                  \o (IF mem = "true" THEN << << "Available memory may be low" >> >> ELSE << >>)
        recommendations ==
            (IF DiskIssue(df) # << >> THEN << << "Free up disk space before installation" >> >> ELSE << >>)
            \o (IF mem = "true" THEN << << "Consider freeing up memory before installation" >> >> ELSE << >>)
    IN  IF mem = "raise"
        THEN Raised(<< "invalid literal for int() with base 10: ", SuperscriptTwo >>)
        ELSE IF issues # << >>
        THEN Returned(Result4("warning", << "Some resource issues detected" >>, issues, recommendations))
        ELSE Returned(Result2("pass", << "System resources look good" >>))

\* the outputs of `df -h /` explored
DfResults ==
    { CommandResult(0, << "F", " ", "S", " ", "U", " ", "A", " ", "P", " ", "M", "\n", "d", " ", "5", "0", "G", " ", "2", "0", "G", " ", "3", "0", "G", " ", "4", "0", "%", " ", "/", "\n" >>, EmptyText),
      CommandResult(0, << "F", " ", "S", " ", "U", " ", "A", " ", "P", " ", "M", "\n", "d", " ", "5", "0", "G", " ", "4", "5", "G", " ", "5", "G", " ", "9", "0", "%", " ", "/", "\n" >>, EmptyText),
      CommandResult(0, << "F", " ", "S", " ", "U", " ", "A", " ", "P", " ", "M", "\n", "d", " ", "5", "0", "G", " ", "4", "6", "G", " ", "4", "G", " ", "9", "1", "%", " ", "/", "\n" >>, EmptyText),
      CommandResult(0, << "F", " ", "S", " ", "U", " ", "A", " ", "P", " ", "M", "\n", "d", " ", "-", " ", "-", " ", "-", " ", "-", " ", "/", "\n" >>, EmptyText),
      CommandResult(0, << "F", " ", "S", " ", "U", " ", "A", " ", "P", " ", "M", "\n", "d", " ", "5", "0", "G", "\n" >>, EmptyText),
      CommandResult(0, << "F", " ", "S", " ", "U", " ", "A", " ", "P", " ", "M", "\n" >>, EmptyText),
      FailedResult }

\* the outputs of `free -m` explored
FreeResults ==
    { CommandResult(0, << "t", " ", "u", " ", "f", " ", "a", "v", "a", "i", "l", "a", "b", "l", "e", "\n", "M", "e", "m", ":", " ", "1", "6", "0", "0", "0", " ", "8", "0", "0", "0", " ", "1", "0", "0", "0", " ", "7", "0", "0", "0", "\n" >>, EmptyText),
      CommandResult(0, << "t", " ", "u", " ", "f", " ", "a", "v", "a", "i", "l", "a", "b", "l", "e", "\n", "M", "e", "m", ":", " ", "1", "6", "0", "0", "0", " ", "1", "5", "0", "0", "0", " ", "3", "0", "0", " ", "5", "0", "0", "\n" >>, EmptyText),
      CommandResult(0, << "t", " ", "u", " ", "f", " ", "A", "V", "A", "I", "L", "A", "B", "L", "E", "\n", "M", "e", "m", ":", " ", "1", "6", "0", "0", "0", " ", "1", "5", "0", "0", "0", " ", "3", "0", "0", " ", "5", "0", "0", "\n" >>, EmptyText),
      CommandResult(0, << "t", " ", "u", " ", "f", "\n", "M", "e", "m", ":", " ", "1", "6", "0", "0", "0", " ", "1", "5", "0", "0", "0", " ", "3", "0", "0", "\n" >>, EmptyText),
      CommandResult(0, << "t", " ", "u", " ", "f", " ", "a", "v", "a", "i", "l", "a", "b", "l", "e", "\n", "M", "e", "m", ":", " ", "1", "6", "0", "0", "0", " ", "1", "5", "0", "0", "0", " ", "5", "0", " ", "x", SuperscriptTwo, "2", " ", "5", "0", "0", "\n" >>, EmptyText),
      CommandResult(0, << "t", " ", "u", " ", "f", " ", "a", "v", "a", "i", "l", "a", "b", "l", "e", "\n", "M", "e", "m", ":", " ", "1", "6", "0", "0", "0", " ", "5", "0", "0", " ", SuperscriptTwo, "\n" >>, EmptyText),
      CommandResult(0, << "t", " ", "u", " ", "f", " ", "a", "v", "a", "i", "l", "a", "b", "l", "e", "\n", "M", "e", "m", ":", " ", "1", "6", "0", "0", "0", " ", SuperscriptTwo, " ", "5", "0", "0", "\n" >>, EmptyText),
      CommandResult(0, << "t", " ", "u", " ", "f", " ", "a", "v", "a", "i", "l", "a", "b", "l", "e", " ", "5", "0", "0", "\n" >>, EmptyText),
      FailedResult }

\* the fixed battery, in order
checks ==
    << "docker_status", "kubectl_access", "kubestellar_contexts", "kubestellar_namespaces",
       "cluster_connectivity", "port_conflicts", "resource_availability" >>

\* any command's result, where only the return code decides
AnyResults == { CommandResult(0, << "o", "k", "\n" >>, EmptyText), FailedResult }

\* an error raised inside a check function other than by its own parsing
\* (MemoryError, RecursionError, ...)
InjectedError == Raised(<< "out of memory" >>)

\* the elements of a list
Names(list) == { list[i] : i \in DOMAIN list }

\* what each check function of the battery can do, over the results its commands
\* can give
DockerStatusRuns == { Returned(_check_docker_status(r)) : r \in AnyResults }

KubectlAccessRuns == { Returned(_check_kubectl_access(r)) : r \in AnyResults }

KubestellarContextsRuns ==
    { Returned(_check_kubestellar_contexts(r)) : r \in DiagGetContextsResults }

KubestellarNamespacesRuns ==
    UNION { { Returned(_check_kubestellar_namespaces(r, ns)) :
                ns \in [ Names(Matching(get_contexts(r), compatible_types)) ->
                           GetNsResults(Wds1System) \X GetNsResults(Its1System) ] } :
            r \in DiagGetContextsResults }

ClusterConnectivityRuns ==
    UNION { { Returned(_check_cluster_connectivity(r, probe)) :
                probe \in [ Names(Matching(get_contexts(r), ConnectivityMarkers)) ->
                              ClusterInfoResults ] } :
            r \in DiagGetContextsResults }

PortConflictsRuns == { Returned(_check_port_conflicts(r)) : r \in AnyResults }

ResourceAvailabilityRuns ==
    { _check_resource_availability(df, free) : df \in DfResults, free \in FreeResults }

\* what `await check_func()` can do for the i-th check of the battery
CheckRuns(i) ==
    CASE i = 1 -> DockerStatusRuns
      [] i = 2 -> KubectlAccessRuns
      [] i = 3 -> KubestellarContextsRuns
      [] i = 4 -> KubestellarNamespacesRuns
      [] i = 5 -> ClusterConnectivityRuns
      [] i = 6 -> PortConflictsRuns
      [] OTHER -> ResourceAvailabilityRuns

InitialDiagnostics ==
    [status |-> "running",
     checks |-> EmptyDict,
     issues_found |-> << >>,
     recommendations |-> << >>,
     summary |-> [total_checks |-> 0, passed |-> 0, warnings |-> 0, failures |-> 0]]

\* a variant that counts a warning as a failure as well
Counted_WarningAlsoFails(summary, st) ==
    IF st = "pass" THEN [summary EXCEPT !.passed = @ + 1]
    ELSE IF st = "warning" THEN [summary EXCEPT !.warnings = @ + 1, !.failures = @ + 1]
    ELSE [summary EXCEPT !.failures = @ + 1]

\* the summary update for a returned check result
Counted(summary, st) ==
    IF st = "pass" THEN [summary EXCEPT !.passed = @ + 1]
    ELSE IF st = "warning" THEN [summary EXCEPT !.warnings = @ + 1]
    ELSE [summary EXCEPT !.failures = @ + 1]

\* the try block of the loop body for a check that returned check_result
Recorded(d, check_name, check_result) ==
    [d EXCEPT !.checks = DictPut(@, check_name, check_result),
              !.summary = Counted(@, check_result.status),
              !.issues_found = IF "issues" \in DOMAIN check_result
                               THEN @ \o check_result.issues ELSE @,
              !.recommendations = IF "recommendations" \in DOMAIN check_result
                                  THEN @ \o check_result.recommendations ELSE @]

\* the except block of the loop body
ErrorRecorded(d, check_name, e) ==
    [d EXCEPT !.checks = DictPut(@, check_name,
                                 [status |-> "error", message |-> << "Check failed: " >> \o e.str]),
              !.summary.failures = @ + 1]

\* a variant without the try/except: an error of a check leaves diagnose_issues
LoopBody_NoExcept(d, check_name, run) ==
    IF ~run.raised
    THEN [propagated |-> FALSE, diagnostics |-> Recorded(d, check_name, run.value)]
    ELSE [propagated |-> TRUE, diagnostics |-> d]

\* a variant whose except block counts the failure and records no entry
LoopBody_ErrorNotRecorded(d, check_name, run) ==
    IF ~run.raised
    THEN [propagated |-> FALSE, diagnostics |-> Recorded(d, check_name, run.value)]
    ELSE [propagated |-> FALSE, diagnostics |-> [d EXCEPT !.summary.failures = @ + 1]]

\* the body of `for check_name, check_func in checks`, given what the check did
LoopBody(d, check_name, run) ==
    IF ~run.raised
    THEN [propagated |-> FALSE, diagnostics |-> Recorded(d, check_name, run.value)]
    ELSE [propagated |-> FALSE, diagnostics |-> ErrorRecorded(d, check_name, run.value)]

\* a variant that looks at the warnings first
OverallStatus_WarningsFirst(summary) ==
    IF summary.warnings > 0 THEN "warnings"
    ELSE IF summary.failures > 0 THEN "issues_found"
    ELSE "healthy"

\* the overall status
OverallStatus(summary) ==
    IF summary.failures > 0 THEN "issues_found"
    ELSE IF summary.warnings > 0 THEN "warnings"
    ELSE "healthy"

DiagIdle ==
    /\ dgPc = "idle"
    /\ dgIdx = 1
    /\ diagnostics = InitialDiagnostics
    /\ dgRaised = << >>

\* diagnose_issues is called: the dict is built and total_checks set
DiagStart ==
    /\ dgPc = "idle"
    /\ diagnostics' = [InitialDiagnostics EXCEPT !.summary.total_checks = Len(checks)]
    /\ dgPc' = "loop"
    /\ UNCHANGED <<dgIdx, dgRaised>>
    /\ UNCHANGED outsideDiag

\* one iteration of the loop over the battery
DiagStep ==
    /\ dgPc = "loop"
    /\ dgIdx <= Len(checks)
    /\ \E run \in CheckRuns(dgIdx) \cup { InjectedError } :
          LET b == LoopBody(diagnostics, checks[dgIdx], run)
          IN  /\ diagnostics' = b.diagnostics
              /\ dgRaised' = IF run.raised THEN Append(dgRaised, checks[dgIdx]) ELSE dgRaised
              /\ dgPc' = IF b.propagated THEN "raised" ELSE "loop"
              /\ dgIdx' = IF b.propagated THEN dgIdx ELSE dgIdx + 1
    /\ UNCHANGED outsideDiag

\* the loop is over: the overall status, and return
DiagFinish ==
    /\ dgPc = "loop"
    /\ dgIdx > Len(checks)
    /\ diagnostics' = [diagnostics EXCEPT !.status = OverallStatus(diagnostics.summary)]
    /\ dgPc' = "done"
    /\ UNCHANGED <<dgIdx, dgRaised>>
    /\ UNCHANGED outsideDiag

(***************************************************************************)
(* ClusterManager.get_cluster_info                                         *)
(***************************************************************************)
\* the longest context list explored
MaxClusterContexts == 2

\* the context names of the explored kubeconfigs
ClusterContextNames == { KindFoo, Prod, Wds1Ctx }

\* a context name no kubeconfig holds
Nowhere == << "n", "o", "w", "h", "e", "r", "e" >>

ClusterContextLists ==
    { s \in UNION { [1..k -> ClusterContextNames] : k \in 0..MaxClusterContexts } :
        \A i, j \in DOMAIN s : i # j => s[i] # s[j] }

ClusterGetContextsResults ==
    { CommandResult(0, JoinLines(l), EmptyText) : l \in ClusterContextLists } \cup { FailedResult }

\* the context arguments explored: none, a listed name, an unlisted name
ContextArgs == { EmptyText, Nowhere } \cup ClusterContextNames

kubestellar_types ==
    { << "k", "u", "b", "e", "f", "l", "e", "x" >>, << "k", "i", "n", "d" >>,
      << "k", "3", "d" >>, << "w", "d", "s" >>, << "i", "t", "s" >> }

\* any(ks_type in ctx for ks_type in kubestellar_types)
is_kubestellar(ctx) == \E ks_type \in kubestellar_types : Contains(ctx, ks_type)

KubeflexSystem ==
    << "k", "u", "b", "e", "f", "l", "e", "x", "-", "s", "y", "s", "t", "e", "m" >>

ks_namespaces == << Wds1System, Its1System, KubeflexSystem >>

\* the three `kubectl get <kind>` commands of _get_kubestellar_resources, in order
resource_verbs ==
    << "get workloaddefinitionspaces", "get managedclusters", "get bindingpolicies" >>

\* `returncode == 0 and stdout.strip()` guarding the name list of one resource kind
ResourceNames(r) ==
    IF r.returncode = 0 /\ Strip(r.stdout) # << >> THEN ParseNameLines(r.stdout) ELSE << >>

\* ClusterManager._get_kubestellar_resources, given the results of its three commands
_get_kubestellar_resources(context, res) ==
    [resources |-> [workload_definition_spaces |-> ResourceNames(res[1]),
                    managed_clusters |-> ResourceNames(res[2]),
                    binding_policies |-> ResourceNames(res[3])],
     cmds |-> [i \in 1..3 |-> KubectlCmd(resource_verbs[i], context, EmptyText)]]

\* the check_namespace calls of _get_detailed_cluster_info, as log entries
KsNamespaceCmds(context) ==
    [i \in 1..3 |-> KubectlCmd("get ns", context, ks_namespaces[i])]

\* a variant that asks for the namespace details whatever the probe said
_get_detailed_cluster_info_Unguarded(context, ci, ns, res) ==
    LET rs == _get_kubestellar_resources(context, res)
        kn == [n \in Names(ks_namespaces) |->
                 check_namespace(n, ns[CHOOSE i \in 1..3 : ks_namespaces[i] = n])]
    IN  [info |-> DictPut(DictPut(ci.info, "kubestellar_namespaces", kn),
                          "kubestellar_resources", rs.resources),
         cmds |-> ci.cmds \o KsNamespaceCmds(context) \o rs.cmds]

\* ClusterManager._get_detailed_cluster_info, given what get_cluster_info returned and
\* the results of the three namespace commands and the three resource commands
\* (issued only for an accessible cluster)
_get_detailed_cluster_info(context, ci, ns, res) ==
    LET rs == _get_kubestellar_resources(context, res)
        kn == [n \in Names(ks_namespaces) |->
                 check_namespace(n, ns[CHOOSE i \in 1..3 : ks_namespaces[i] = n])]
    IN  IF ci.info.accessible
        THEN [info |-> DictPut(DictPut(ci.info, "kubestellar_namespaces", kn),
                               "kubestellar_resources", rs.resources),
              cmds |-> ci.cmds \o KsNamespaceCmds(context) \o rs.cmds]
        ELSE [info |-> ci.info, cmds |-> ci.cmds]

\* the results of the three `kubectl get ns <namespace>` commands explored
KsNamespaceResults ==
    { << r, r, r >> : r \in { FailedResult } } \cup
    { [i \in 1..3 |-> CommandResult(0, << "N", "A", "M", "E", "\n" >> \o ks_namespaces[i]
                                        \o << " ", "A", "c", "t", "i", "v", "e", "\n" >>, EmptyText)],
      << CommandResult(0, << "N", "A", "M", "E", "\n" >> \o Wds1System \o << "\n" >>, EmptyText),
         CommandResult(0, EmptyText, EmptyText),
         FailedResult >> }

\* the results of the three `kubectl get <kind> -o=name --ignore-not-found` commands explored
KsResourceResults ==
    { << FailedResult, FailedResult, FailedResult >>,
      << CommandResult(0, << "w", "/", "a", "\n", "w", "/", "b", "\n" >>, EmptyText),
         CommandResult(0, << " ", "\n" >>, EmptyText),
         FailedResult >>,
      << CommandResult(0, EmptyText, EmptyText),
         CommandResult(0, << "m", "/", "a", "\n" >>, EmptyText),
         CommandResult(0, << "b", "/", "a", "\n" >>, EmptyText) >> }

\* everything one _get_detailed_cluster_info call can return for a context, with
\* whether its cluster-info probe succeeded
DetailedRuns(context) ==
    { [run |-> _get_detailed_cluster_info(context,
                   get_cluster_info(context, probe, nodes, namespaces), ns, res),
       probed |-> probe.returncode = 0] :
        probe \in ClusterInfoResults, nodes \in NameListResults,
        namespaces \in NameListResults, ns \in KsNamespaceResults,
        res \in KsResourceResults }

InitialClusterResult ==
    [clusters |-> EmptyDict,
     summary |-> [total_contexts |-> 0, kubestellar_contexts |-> 0, accessible_clusters |-> 0]]

ClusterIdle ==
    /\ cmPc = "idle"
    /\ cmArg = EmptyText
    /\ cmContexts = << >>
    /\ cmIdx = 1
    /\ cmResult = InitialClusterResult
    /\ cmLog = << >>
    /\ cmProbed = EmptyDict

\* get_cluster_info(context) is called: the result dict is built, get_contexts runs,
\* and an unlisted context argument ends the call with an error entry
ClusterStart ==
    /\ cmPc = "idle"
    /\ \E context \in ContextArgs, r \in ClusterGetContextsResults :
          LET ctxs == get_contexts(r)
              counted == [cmResult EXCEPT !.summary.total_contexts = Len(ctxs)]
          IN  /\ cmArg' = context
              /\ cmContexts' = ctxs
              /\ IF context = EmptyText
                 THEN cmPc' = "loop" /\ cmResult' = counted
                 ELSE IF context \in Names(ctxs)
                 THEN cmPc' = "single" /\ cmResult' = counted
                 ELSE /\ cmPc' = "done"
                      /\ cmResult' = DictPut(counted, "error",
                                             << "Context '" >> \o context \o << "' not found" >>)
    /\ cmLog' = << KubectlCmd("config get-contexts", EmptyText, EmptyText) >>
    /\ UNCHANGED <<cmIdx, cmProbed>>
    /\ UNCHANGED outsideCluster

\* the branch for a listed context argument: its details, then return
ClusterSingle ==
    /\ cmPc = "single"
    /\ \E d \in DetailedRuns(cmArg) :
          /\ cmResult' = [cmResult EXCEPT !.clusters = DictPut(@, cmArg, d.run.info)]
          /\ cmLog' = cmLog \o d.run.cmds
          /\ cmProbed' = DictPut(cmProbed, cmArg, d.probed)
    /\ cmPc' = "done"
    /\ UNCHANGED <<cmArg, cmContexts, cmIdx>>
    /\ UNCHANGED outsideCluster

\* one iteration of `for ctx in contexts` on a context that is not KubeStellar-related
ClusterSkip ==
    /\ cmPc = "loop"
    /\ cmIdx <= Len(cmContexts)
    /\ ~is_kubestellar(cmContexts[cmIdx])
    /\ cmIdx' = cmIdx + 1
    /\ UNCHANGED <<cmPc, cmArg, cmContexts, cmResult, cmLog, cmProbed>>
    /\ UNCHANGED outsideCluster

\* one iteration of `for ctx in contexts` on a KubeStellar-related context
ClusterProbe ==
    /\ cmPc = "loop"
    /\ cmIdx <= Len(cmContexts)
    /\ is_kubestellar(cmContexts[cmIdx])
    /\ \E d \in DetailedRuns(cmContexts[cmIdx]) :
          LET ctx == cmContexts[cmIdx]
              cluster_info == d.run.info
          IN  /\ cmResult' =
                    [cmResult EXCEPT
                        !.summary.kubestellar_contexts = @ + 1,
                        !.clusters = DictPut(@, ctx, cluster_info),
                        !.summary.accessible_clusters =
                            IF cluster_info.accessible THEN @ + 1 ELSE @]
              /\ cmLog' = cmLog \o d.run.cmds
              /\ cmProbed' = DictPut(cmProbed, ctx, d.probed)
    /\ cmIdx' = cmIdx + 1
    /\ UNCHANGED <<cmPc, cmArg, cmContexts>>
    /\ UNCHANGED outsideCluster

\* the loop is over: return result
ClusterFinish ==
    /\ cmPc = "loop"
    /\ cmIdx > Len(cmContexts)
    /\ cmPc' = "done"
    /\ UNCHANGED <<cmArg, cmContexts, cmIdx, cmResult, cmLog, cmProbed>>
    /\ UNCHANGED outsideCluster

(***************************************************************************)
(* PrerequisitesChecker.check_prerequisites                                *)
(***************************************************************************)
Kubectl == << "k", "u", "b", "e", "c", "t", "l" >>
Docker  == << "d", "o", "c", "k", "e", "r" >>
Helm    == << "h", "e", "l", "m" >>
Go      == << "g", "o" >>
Kind    == << "k", "i", "n", "d" >>
K3d     == << "k", "3", "d" >>

\* the keys of the tools dict, in insertion order
tools == << Kubectl, Docker, Helm, Go, Kind, K3d >>

\* the version command of each tool, as a log entry
version_cmd ==
    << "kubectl version --client", "docker --version", "helm version",
       "go version", "kind version", "k3d version" >>

\* the tools whose absence is recorded in missing
required_tools == { Kubectl, Docker, Helm }

DockerRunning == << "d", "o", "c", "k", "e", "r", " ", "(", "r", "u", "n", "n", "i", "n", "g", ")" >>
GoVersionEntry == << "g", "o", " ", "(", "v", "e", "r", "s", "i", "o", "n", " ", "1", ".", "1", "9", "+", ")" >>

\* shutil.which(tool): a path, or nothing
NoPath == << >>
PathOf(tool) == << "/", "b", "i", "n", "/" >> \o tool

\* str.replace(old, ""): every occurrence of old removed, left to right
RECURSIVE RemoveAll(_, _)
RemoveAll(s, old) ==
    IF Len(s) < Len(old) THEN s
    ELSE IF SubSeq(s, 1, Len(old)) = old THEN RemoveAll(SubSeq(s, Len(old) + 1, Len(s)), old)
    ELSE << Head(s) >> \o RemoveAll(Tail(s), old)

\* str.split("."): the pieces between dots, empty pieces kept
RECURSIVE SplitDotFrom(_, _, _)
SplitDotFrom(s, i, piece) ==
    IF i > Len(s) THEN << piece >>
    ELSE IF s[i] = "." THEN << piece >> \o SplitDotFrom(s, i + 1, << >>)
    ELSE SplitDotFrom(s, i + 1, Append(piece, s[i]))

SplitDot(s) == SplitDotFrom(s, 1, << >>)

\* a variant in which the presence on the path alone makes a tool installed
_check_tool_PathGoverns(tool, path, r) ==
    IF path # NoPath
    THEN [installed |-> TRUE, version |-> EmptyText, path |-> path, error |-> EmptyText]
    ELSE [installed |-> FALSE, version |-> EmptyText, path |-> NoPath,
          error |-> tool \o << " ", "n", "o", "t", " ", "f", "o", "u", "n", "d", " ", "i", "n", " ", "P", "A", "T", "H" >>]

\* PrerequisitesChecker._check_tool, given what shutil.which found and the result of
\* the version command (run only when a path was found)
_check_tool(tool, path, r) ==
    IF path # NoPath
    THEN IF r.returncode = 0
         THEN [installed |-> TRUE, version |-> SplitLines(Strip(r.stdout))[1],
               path |-> path, error |-> EmptyText]
         ELSE [installed |-> FALSE, version |-> EmptyText, path |-> path,
               error |-> IF Strip(r.stderr) # << >> THEN Strip(r.stderr) ELSE Strip(r.stdout)]
    ELSE [installed |-> FALSE, version |-> EmptyText, path |-> NoPath,
          error |-> tool \o << " ", "n", "o", "t", " ", "f", "o", "u", "n", "d", " ", "i", "n", " ", "P", "A", "T", "H" >>]

\* the version number the Go rule extracts from the version line: parsed = FALSE when
\* an IndexError or ValueError is raised on the way (and swallowed)
GoVersion(version_str) ==
    LET unparsed == [parsed |-> FALSE, num |-> << >>, major |-> 0, minor |-> 0]
        tokens == SplitWs(version_str)
        version_num == RemoveAll(tokens[3], Go)
        parts == SplitDot(version_num)
    IN  IF Len(tokens) < 3 THEN unparsed
        ELSE IF Len(parts) < 2 THEN unparsed
        ELSE IF ~PyInt(parts[1]).ok \/ ~PyInt(parts[2]).ok THEN unparsed
        ELSE [parsed |-> TRUE, num |-> version_num,
              major |-> PyInt(parts[1]).value, minor |-> PyInt(parts[2]).value]

\* a variant whose gate ignores the major version
_check_go_version_AnyMajor(results) ==
    LET go_check == results.checks[Go]
        v == GoVersion(go_check.version)
    IN  IF go_check.installed /\ Contains(go_check.version, Go)
           /\ v.parsed /\ v.minor < 19
        THEN [results EXCEPT
                !.missing = Append(@, GoVersionEntry),
                !.all_satisfied = FALSE]
        ELSE results

\* PrerequisitesChecker._check_go_version
_check_go_version(results) ==
    LET go_check == results.checks[Go]
        v == GoVersion(go_check.version)
    IN  IF go_check.installed /\ Contains(go_check.version, Go)
           /\ v.parsed /\ v.major = 1 /\ v.minor < 19
        THEN [results EXCEPT
                !.checks[Go].error = << "G", "o", " ", "v", "e", "r", "s", "i", "o", "n", " " >> \o v.num \o << " ", "i", "s", " ", "t", "o", "o", " ", "o", "l", "d", ".", " ", "R", "e", "q", "u", "i", "r", "e", "s", " ", "G", "o", " ", "1", ".", "1", "9", "+" >>,
                !.missing = Append(@, GoVersionEntry),
                !.all_satisfied = FALSE]
        ELSE results

\* a variant that records the liveness failure under the plain tool name
_check_docker_running_PlainEntry(results, r) ==
    IF r.returncode # 0
    THEN [results EXCEPT
            !.checks[Docker].error = << "D", "o", "c", "k", "e", "r", " ", "i", "s", " ", "n", "o", "t", " ", "r", "u", "n", "n", "i", "n", "g", " ", "o", "r", " ", "n", "o", "t", " ", "a", "c", "c", "e", "s", "s", "i", "b", "l", "e" >>,
            !.missing = Append(@, Docker),
            !.all_satisfied = FALSE]
    ELSE results

\* PrerequisitesChecker._check_docker_running, given the result of `docker ps`
_check_docker_running(results, r) ==
    IF r.returncode # 0
    THEN [results EXCEPT
            !.checks[Docker].error = << "D", "o", "c", "k", "e", "r", " ", "i", "s", " ", "n", "o", "t", " ", "r", "u", "n", "n", "i", "n", "g", " ", "o", "r", " ", "n", "o", "t", " ", "a", "c", "c", "e", "s", "s", "i", "b", "l", "e" >>,
            !.missing = Append(@, DockerRunning),
            !.all_satisfied = FALSE]
    ELSE results

\* the recommendation of one missing entry: the first matching branch of the elif chain
RecommendationFor(missing) ==
    IF Contains(missing, Kubectl) THEN << "Install kubectl" >>
    ELSE IF Contains(missing, Docker) THEN << "Install Docker or Podman" >>
    ELSE IF Contains(missing, Helm) THEN << "Install Helm" >>
    ELSE IF Contains(missing, Go) THEN << "Install Go 1.19+" >>
    ELSE IF Contains(missing, Kind) THEN << "Install kind" >>
    ELSE IF Contains(missing, K3d) THEN << "Install k3d" >>
    ELSE << >>

AllSatisfiedText == "All prerequisites are satisfied! You can proceed with KubeStellar installation."

\* PrerequisitesChecker._add_recommendations
_add_recommendations(results) ==
    LET per == [i \in DOMAIN results.missing |-> RecommendationFor(results.missing[i])]
        recommendations ==
            SelectSeq(per, LAMBDA x : x # << >>)
            \o (IF results.missing = << >> THEN << << AllSatisfiedText >> >> ELSE << >>)
    IN  [results EXCEPT !.recommendations = recommendations]

InitialPrerequisites ==
    [all_satisfied |-> TRUE, checks |-> EmptyDict, missing |-> << >>, recommendations |-> << >>]

\* the body of `for tool, version_cmd in tools.items()`
ToolBody(results, tool, check_result) ==
    LET recorded == [results EXCEPT !.checks = DictPut(@, tool, check_result)]
    IN  IF ~check_result.installed
        THEN [recorded EXCEPT
                !.all_satisfied = FALSE,
                !.missing = IF tool \in required_tools THEN Append(@, tool) ELSE @]
        ELSE recorded

\* the outputs of a version command explored for the tools other than go
VersionResults ==
    { CommandResult(0, << " ", "v", "1", ".", "2", ".", "3", "\n", "b", "u", "i", "l", "d", " ", "7", "\n" >>, EmptyText),
      CommandResult(1, EmptyText, << "d", "e", "n", "i", "e", "d", "\n" >>),
      CommandResult(1, << "u", "s", "a", "g", "e", "\n" >>, EmptyText) }

\* the outputs of `go version` explored
GoVersionResults ==
    { CommandResult(0, << "g", "o", " ", "v", "e", "r", "s", "i", "o", "n", " ", "g", "o", "1", ".", "2", "1", ".", "0", " ", "l", "i", "n", "u", "x", "/", "a", "m", "d", "6", "4", "\n" >>, EmptyText),
      CommandResult(0, << "g", "o", " ", "v", "e", "r", "s", "i", "o", "n", " ", "g", "o", "1", ".", "1", "8", ".", "3", " ", "l", "i", "n", "u", "x", "/", "a", "m", "d", "6", "4", "\n" >>, EmptyText),
      CommandResult(0, << "g", "o", " ", "v", "e", "r", "s", "i", "o", "n", " ", "g", "o", "1", ".", "1", "9", " ", "l", "i", "n", "u", "x", "/", "a", "m", "d", "6", "4", "\n" >>, EmptyText),
      CommandResult(0, << "g", "o", " ", "v", "e", "r", "s", "i", "o", "n", " ", "d", "e", "v", "e", "l", " ", "l", "i", "n", "u", "x", "/", "a", "m", "d", "6", "4", "\n" >>, EmptyText),
      CommandResult(0, << "g", "o", " ", "v", "e", "r", "s", "i", "o", "n", " ", "g", "o", "2", ".", "3", ".", "0", " ", "l", "i", "n", "u", "x", "/", "a", "m", "d", "6", "4", "\n" >>, EmptyText),
      CommandResult(0, << "g", "o", " ", "v", "e", "r", "s", "i", "o", "n", " ", "g", "o", "1", ".", "9", ".", "7", " ", "l", "i", "n", "u", "x", "/", "a", "m", "d", "6", "4", "\n" >>, EmptyText),
      CommandResult(0, << "g", "o", "1", ".", "1", "8", ".", "3", "\n" >>, EmptyText),
      CommandResult(0, << "v", "e", "r", "s", "i", "o", "n", " ", "1", ".", "1", "8", ".", "3", " ", "u", "n", "k", "n", "o", "w", "n", "\n" >>, EmptyText),
      CommandResult(1, EmptyText, << "d", "e", "n", "i", "e", "d", "\n" >>) }

\* what shutil.which and the version command can give for a tool
ToolRuns(tool) ==
    { [path |-> NoPath, ran |-> FALSE, r |-> FailedResult] } \cup
    { [path |-> PathOf(tool), ran |-> TRUE, r |-> r] :
        r \in IF tool = Go THEN GoVersionResults ELSE VersionResults }

\* the results `docker ps` can give
DockerPsResults == { CommandResult(0, << "C", "O", "N", "T", "A", "I", "N", "E", "R", " ", "I", "D", "\n" >>, EmptyText), FailedResult }

PrereqIdle ==
    /\ prPc = "idle"
    /\ prIdx = 1
    /\ prResults = InitialPrerequisites
    /\ prLog = << >>
    /\ prFound = EmptyDict
    /\ prDockerPs = "none"

\* check_prerequisites is called: the results dict and the tools dict are built
PrereqStart ==
    /\ prPc = "idle"
    /\ prPc' = "tools"
    /\ UNCHANGED <<prIdx, prResults, prLog, prFound, prDockerPs>>
    /\ UNCHANGED outsidePrereq

\* one iteration of `for tool, version_cmd in tools.items()`
PrereqTool ==
    /\ prPc = "tools"
    /\ prIdx <= Len(tools)
    /\ \E run \in ToolRuns(tools[prIdx]) :
          LET tool == tools[prIdx]
          IN  /\ prResults' = ToolBody(prResults, tool, _check_tool(tool, run.path, run.r))
              /\ prLog' = IF run.ran THEN Append(prLog, version_cmd[prIdx]) ELSE prLog
              /\ prFound' = DictPut(prFound, tool, run.ran /\ run.r.returncode = 0)
    /\ prIdx' = prIdx + 1
    /\ UNCHANGED <<prPc, prDockerPs>>
    /\ UNCHANGED outsidePrereq

\* after the loop: the Go version rule, when go is installed
PrereqGoVersion ==
    /\ prPc = "tools"
    /\ prIdx > Len(tools)
    /\ prResults' = IF prResults.checks[Go].installed
                    THEN _check_go_version(prResults) ELSE prResults
    /\ prPc' = "docker"
    /\ UNCHANGED <<prIdx, prLog, prFound, prDockerPs>>
    /\ UNCHANGED outsidePrereq

\* the liveness probe, when docker is installed: `docker ps` runs
PrereqDockerRunning ==
    /\ prPc = "docker"
    /\ prResults.checks[Docker].installed
    /\ \E r \in DockerPsResults :
          /\ prResults' = _check_docker_running(prResults, r)
          /\ prDockerPs' = IF r.returncode = 0 THEN "ok" ELSE "failed"
    /\ prLog' = Append(prLog, "docker ps")
    /\ prPc' = "recommend"
    /\ UNCHANGED <<prIdx, prFound>>
    /\ UNCHANGED outsidePrereq

\* docker is not installed: no probe
PrereqDockerSkipped ==
    /\ prPc = "docker"
    /\ ~prResults.checks[Docker].installed
    /\ prPc' = "recommend"
    /\ UNCHANGED <<prIdx, prResults, prLog, prFound, prDockerPs>>
    /\ UNCHANGED outsidePrereq

\* the recommendations are added and results is returned
PrereqFinish ==
    /\ prPc = "recommend"
    /\ prResults' = _add_recommendations(prResults)
    /\ prPc' = "done"
    /\ UNCHANGED <<prIdx, prLog, prFound, prDockerPs>>
    /\ UNCHANGED outsidePrereq

(***************************************************************************)
(* DemoEnvironmentManager                                                  *)
(***************************************************************************)
\* the timeout create_demo_environment gives the script
ScriptTimeout == 1800

\* the platform arguments explored
Platforms == { "kind", "k3d", "minikube", "KIND", "" }

\* `platform not in ["kind", "k3d"]` negated, in a variant that lets every value through
platform_supported_Any(platform) == TRUE

\* `platform not in ["kind", "k3d"]` of create_demo_environment, negated
platform_supported(platform) == platform \in { "kind", "k3d" }

\* no result: the call has not been made
NoDict == EmptyDict

InitialCreateResult(platform) ==
    [success |-> FALSE, platform |-> platform, message |-> << >>,
     clusters_created |-> << >>, contexts_created |-> << >>,
     script_output |-> EmptyText, next_steps |-> << >>]

InitialCleanupResult(platform) ==
    [success |-> TRUE, platform |-> platform, cleaned_clusters |-> << >>,
     cleaned_contexts |-> << >>, errors |-> << >>]

\* a run_command call of the demo manager, as a log entry
DemoCmd(cmd, arg) == [cmd |-> cmd, arg |-> arg]

\* str(e) of the exceptions the two operations can run into
DemoExcMessage(e) ==
    CASE e = "OSError (tempfile)"  -> "[Errno 28] No space left on device"
      [] e = "OSError (write)"     -> "[Errno 28] No space left on device"
      [] e = "UnboundLocalError"   -> "cannot access local variable 'returncode' where it is not associated with a value"
      [] OTHER                     -> "error"

\* the except clause of create_demo_environment
CreateExcept(res, e) ==
    [raised |-> FALSE,
     result |-> [res EXCEPT
                    !.message = << "Error creating demo environment: ", DemoExcMessage(e) >>]]

\* the branch after the script has run
ScriptOutcome(res, platform, r) ==
    LET with_output == [res EXCEPT !.script_output = r.stdout \o r.stderr]
    IN  IF r.returncode = 0
        THEN [with_output EXCEPT
                !.success = TRUE,
                !.message = << "Demo environment created successfully!" >>,
                !.clusters_created = << "kubeflex", "cluster1", "cluster2" >>,
                !.contexts_created = << << platform, "-kubeflex" >>, << "cluster1" >>,
                                        << "cluster2" >>, << "wds1" >>, << "its1" >> >>,
                !.next_steps =
                    << "Set environment variables as shown in script output",
                       "Try the example scenarios from KubeStellar documentation",
                       "Use 'get_cluster_info' tool to verify cluster status" >>]
        ELSE [with_output EXCEPT
                !.message = << "Demo environment creation failed with return code " >>
                            \o Digits(r.returncode)]

\* the results `curl -s <script_url>` can give
CurlResults ==
    { CommandResult(0, << "#", "!", "/", "b", "i", "n", "/", "b", "a", "s", "h", "\n" >>, EmptyText),
      CommandResult(0, EmptyText, EmptyText),
      CommandResult(1, EmptyText, << "C", "o", "u", "l", "d", " ", "n", "o", "t", " ", "r", "e", "s", "o", "l", "v", "e", " ", "h", "o", "s", "t" >>) }

\* the results `chmod +x <script_path>` can give
ChmodResults == { CommandResult(0, EmptyText, EmptyText), FailedResult }

\* the results `bash <script_path> --platform <platform>` can give: success,
\* failure, and run_command's timeout result
ScriptResults ==
    { CommandResult(0, << "d", "o", "n", "e", "\n" >>, << "w", "a", "r", "n", "\n" >>),
      CommandResult(2, << "s", "t", "e", "p", " ", "1", "\n" >>, << "f", "a", "i", "l", "e", "d", "\n" >>),
      CommandResult(1, EmptyText, TimeoutMessage(ScriptTimeout)) }

\* what Path(script_path).unlink() can do: remove the file, raise because the file
\* is gone already, raise leaving the file in place
UnlinkOutcomes == { "removed", "FileNotFoundError", "PermissionError" }

\* the file after the unlink attempt
AfterUnlink(outcome) == IF outcome = "PermissionError" THEN "exists" ELSE "removed"

clusters == << "kubeflex", "cluster1", "cluster2" >>

contexts_to_clean == << "cluster1", "cluster2" >>

\* the results a deletion command can give
DeleteResults == { CommandResult(0, << "d", "e", "l", "e", "t", "e", "d", "\n" >>, EmptyText), FailedResult }

\* a variant in which a single failed deletion fails the whole cleanup
CleanupSuccess_AnyFailureFails(res) == res.errors = << >>

\* `if result["errors"]: result["success"] = len(result["errors"]) < len(clusters)`
CleanupSuccess(res) ==
    IF res.errors # << >> THEN Len(res.errors) < Len(clusters) ELSE res.success

\* a variant without the except clause: the exception leaves the call
CleanupExcept_Propagates(res, e) == [raised |-> TRUE, result |-> res]

\* the except clause of cleanup_demo_environment
CleanupExcept(res, e) ==
    [raised |-> FALSE,
     result |-> [res EXCEPT !.success = FALSE,
                               !.errors = Append(@, << DemoExcMessage(e) >>)]]

\* a variant that drops the error of a failed cluster deletion
ClusterDeletion_ErrorDropped(res, cluster, r) ==
    IF r.returncode = 0
    THEN [res EXCEPT !.cleaned_clusters = Append(@, cluster)]
    ELSE res

\* the body of `for cluster in clusters`, given the result of the deletion command
ClusterDeletion(res, cluster, r) ==
    IF r.returncode = 0
    THEN [res EXCEPT !.cleaned_clusters = Append(@, cluster)]
    ELSE [res EXCEPT
            !.errors = Append(@, << "Failed to delete cluster ", cluster, ": " >> \o r.stderr)]

\* a variant that collects a failed context deletion into errors
ContextDeletion_FailureCollected(res, context, r) ==
    IF r.returncode = 0
    THEN [res EXCEPT !.cleaned_contexts = Append(@, context)]
    ELSE [res EXCEPT
            !.errors = Append(@, << "Failed to delete context ", context, ": " >> \o r.stderr)]

\* the body of `for context in contexts_to_clean`
ContextDeletion(res, context, r) ==
    IF r.returncode = 0
    THEN [res EXCEPT !.cleaned_contexts = Append(@, context)]
    ELSE res

DemoIdle ==
    /\ dmPc = "idle"
    /\ dmPlatform = "kind"
    /\ dmResult = NoDict
    /\ dmFile = "none"
    /\ dmLog = << >>
    /\ dmRaised = FALSE
    /\ clResult = NoDict
    /\ clIdx = 1
    /\ clFailed = 0

\* create_demo_environment(platform) is called: the result dict is built and an
\* unsupported platform returns at once
DemoCreateCall ==
    /\ dmPc = "idle"
    /\ \E platform \in Platforms :
          /\ dmPlatform' = platform
          /\ dmResult' =
                IF platform_supported(platform)
                THEN InitialCreateResult(platform)
                ELSE [InitialCreateResult(platform) EXCEPT
                        !.message = << "Unsupported platform: ", platform,
                                       ". Use 'kind' or 'k3d'" >>]
          /\ dmPc' = IF platform_supported(platform) THEN "tempfile" ELSE "created"
    /\ UNCHANGED <<dmFile, dmLog, dmRaised, clResult, clIdx, clFailed>>
    /\ UNCHANGED outsideDemo

\* tempfile.NamedTemporaryFile(delete=False) creates the script file, then curl runs
\* inside the with block; a failed download returns from inside it
DemoDownload ==
    /\ dmPc = "tempfile"
    /\ dmFile' = "exists"
    /\ dmLog' = Append(dmLog, DemoCmd("curl -s", "script_url"))
    /\ \E r \in CurlResults :
          IF r.returncode # 0
          THEN /\ dmResult' = [dmResult EXCEPT
                                  !.message = << "Failed to download demo script: " >> \o r.stderr]
               /\ dmPc' = "created"
          ELSE /\ dmPc' = "write"
               /\ UNCHANGED dmResult
    /\ UNCHANGED <<dmPlatform, dmRaised, clResult, clIdx, clFailed>>
    /\ UNCHANGED outsideDemo

\* NamedTemporaryFile raises: no file, the except clause returns
DemoTempfileFails ==
    /\ dmPc = "tempfile"
    /\ LET x == CreateExcept(dmResult, "OSError (tempfile)")
       IN  dmResult' = x.result /\ dmRaised' = x.raised
    /\ dmPc' = "created"
    /\ UNCHANGED <<dmPlatform, dmFile, dmLog, clResult, clIdx, clFailed>>
    /\ UNCHANGED outsideDemo

\* f.write(script_content) and the end of the with block, then chmod +x runs
DemoWriteAndChmod ==
    /\ dmPc = "write"
    /\ dmLog' = Append(dmLog, DemoCmd("chmod +x", "script_path"))
    /\ \E r \in ChmodResults : dmPc' = "script"
    /\ UNCHANGED <<dmPlatform, dmResult, dmFile, dmRaised, clResult, clIdx, clFailed>>
    /\ UNCHANGED outsideDemo

\* f.write(script_content) raises: the except clause returns
DemoWriteFails ==
    /\ dmPc = "write"
    /\ LET x == CreateExcept(dmResult, "OSError (write)")
       IN  dmResult' = x.result /\ dmRaised' = x.raised
    /\ dmPc' = "created"
    /\ UNCHANGED <<dmPlatform, dmFile, dmLog, clResult, clIdx, clFailed>>
    /\ UNCHANGED outsideDemo

\* the script runs (or times out), the result is filled in, the file is unlinked
\* (a failure to unlink is logged and ignored), the call returns
DemoScript ==
    /\ dmPc = "script"
    /\ dmLog' = Append(dmLog, DemoCmd("bash script_path --platform", dmPlatform))
    /\ \E r \in ScriptResults : dmResult' = ScriptOutcome(dmResult, dmPlatform, r)
    /\ \E u \in UnlinkOutcomes : dmFile' = AfterUnlink(u)
    /\ dmPc' = "created"
    /\ UNCHANGED <<dmPlatform, dmRaised, clResult, clIdx, clFailed>>
    /\ UNCHANGED outsideDemo

\* cleanup_demo_environment(platform) is called, on its own or right after create
\* with the same platform: the result dict is built
DemoCleanupCall ==
    /\ dmPc \in {"idle", "created"}
    /\ ~dmRaised
    /\ \E platform \in Platforms :
          /\ dmPc = "created" => platform = dmPlatform
          /\ dmPlatform' = platform
          /\ clResult' = InitialCleanupResult(platform)
    /\ dmPc' = "clusters"
    /\ UNCHANGED <<dmResult, dmFile, dmLog, dmRaised, clIdx, clFailed>>
    /\ UNCHANGED outsideDemo

\* one iteration of `for cluster in clusters` for kind or k3d
DemoDeleteCluster ==
    /\ dmPc = "clusters"
    /\ clIdx <= Len(clusters)
    /\ dmPlatform \in { "kind", "k3d" }
    /\ dmLog' = Append(dmLog,
                       DemoCmd(IF dmPlatform = "kind" THEN "kind delete cluster --name"
                                                      ELSE "k3d cluster delete",
                               clusters[clIdx]))
    /\ \E r \in DeleteResults :
          /\ clResult' = ClusterDeletion(clResult, clusters[clIdx], r)
          /\ clFailed' = IF r.returncode = 0 THEN clFailed ELSE clFailed + 1
    /\ clIdx' = clIdx + 1
    /\ UNCHANGED <<dmPc, dmPlatform, dmResult, dmFile, dmRaised>>
    /\ UNCHANGED outsideDemo

\* the first iteration for any other platform: neither branch assigns returncode, so
\* `if returncode == 0` raises UnboundLocalError and the except clause returns
DemoDeleteUnbound ==
    /\ dmPc = "clusters"
    /\ clIdx <= Len(clusters)
    /\ dmPlatform \notin { "kind", "k3d" }
    /\ LET x == CleanupExcept(clResult, "UnboundLocalError")
       IN  clResult' = x.result /\ dmRaised' = x.raised
    /\ dmPc' = "cleaned"
    /\ UNCHANGED <<dmPlatform, dmResult, dmFile, dmLog, clIdx, clFailed>>
    /\ UNCHANGED outsideDemo

\* the cluster loop is over: the context loop starts
DemoClustersDone ==
    /\ dmPc = "clusters"
    /\ clIdx > Len(clusters)
    /\ dmPc' = "contexts"
    /\ clIdx' = 1
    /\ UNCHANGED <<dmPlatform, dmResult, dmFile, dmLog, dmRaised, clResult, clFailed>>
    /\ UNCHANGED outsideDemo

\* one iteration of `for context in contexts_to_clean`
DemoDeleteContext ==
    /\ dmPc = "contexts"
    /\ clIdx <= Len(contexts_to_clean)
    /\ dmLog' = Append(dmLog, DemoCmd("kubectl config delete-context", contexts_to_clean[clIdx]))
    /\ \E r \in DeleteResults :
          clResult' = ContextDeletion(clResult, contexts_to_clean[clIdx], r)
    /\ clIdx' = clIdx + 1
    /\ UNCHANGED <<dmPc, dmPlatform, dmResult, dmFile, dmRaised, clFailed>>
    /\ UNCHANGED outsideDemo

\* both loops are over: success is settled and the result returned
DemoCleanupFinish ==
    /\ dmPc = "contexts"
    /\ clIdx > Len(contexts_to_clean)
    /\ clResult' = [clResult EXCEPT !.success = CleanupSuccess(clResult)]
    /\ dmPc' = "cleaned"
    /\ UNCHANGED <<dmPlatform, dmResult, dmFile, dmLog, dmRaised, clIdx, clFailed>>
    /\ UNCHANGED outsideDemo

(***************************************************************************)
(* server.py: handle_call_tool and handle_read_resource                    *)
(***************************************************************************)
\* the tool names handle_call_tool has a branch for
tool_names ==
    { "check_kubestellar_status", "check_prerequisites", "install_kubestellar",
      "get_cluster_info", "diagnose_issues", "create_demo_environment" }

\* the tool names explored: the known ones and two that have no branch
RequestedNames == tool_names \cup { "cleanup_demo_environment", "" }

\* the resource URIs handle_read_resource has a branch for
resource_uris ==
    { "kubestellar://docs/installation", "kubestellar://docs/index",
      "kubestellar://scripts/demo", "kubestellar://scripts/prerequisites",
      "kubestellar://scripts/all" }

\* the URIs explored
RequestedUris == resource_uris \cup { "kubestellar://docs/unknown", "" }

\* the values explored for each argument
ArgumentValues ==
    [method   |-> { "guide", "download_script", "validate_environment", "upgrade" },
     action   |-> { "create", "cleanup", "destroy" },
     platform |-> { "kind", "minikube" }]

\* the arguments explored: a dict with any of the three keys, or None
ArgumentDicts ==
    UNION { { [none |-> FALSE, dict |-> d] :
                d \in { f \in [keys -> UNION { ArgumentValues[k] : k \in keys }] :
                          \A k \in keys : f[k] \in ArgumentValues[k] } } :
            keys \in SUBSET { "method", "action", "platform" } }
    \cup { [none |-> TRUE, dict |-> EmptyDict] }

\* arguments.get(key, default)
Get(arguments, key, default) ==
    IF key \in DOMAIN arguments.dict THEN arguments.dict[key] ELSE default

\* what the awaited service call gave: it raised, or it returned a report that
\* says success (ok) or failure
ServiceOutcomes ==
    { [raised |-> FALSE, ok |-> TRUE], [raised |-> FALSE, ok |-> FALSE],
      [raised |-> TRUE, ok |-> FALSE] }

\* the outcome of a step: a returned text (in parts) or a raised exception (its
\* type and message)
Return(parts) == [raised |-> FALSE, text |-> parts]
Raise(type, parts) == [raised |-> TRUE, text |-> << type >> \o parts]

\* the service method a call awaits, "none" when the branch awaits nothing
ServiceCall(name, arguments) ==
    CASE name \in { "check_kubestellar_status", "check_prerequisites", "diagnose_issues" } -> name
      [] name \in { "install_kubestellar", "get_cluster_info", "create_demo_environment" }
         /\ arguments.none -> "none"
      [] name = "get_cluster_info" -> name
      [] name = "install_kubestellar" ->
             LET method == Get(arguments, "method", "guide")
             IN  CASE method = "guide" -> "get_installation_guide"
                   [] method = "download_script" -> "download_demo_script"
                   [] method = "validate_environment" -> "validate_installation_environment"
                   [] OTHER -> "none"
      [] name = "create_demo_environment" ->
             LET action == Get(arguments, "action", "create")
             IN  CASE action = "create" -> "create_demo_environment"
                   [] action = "cleanup" -> "cleanup_demo_environment"
                   [] OTHER -> "none"
      [] OTHER -> "none"

\* the if / elif chain inside the try block of handle_call_tool, given what the
\* awaited service call gave
TryBody(name, arguments, svc) ==
    LET called == ServiceCall(name, arguments)
        unbound == Raise("UnboundLocalError",
                         << "cannot access local variable 'response' where it is not associated with a value" >>)
    IN  IF name \notin tool_names THEN Return(<< "Unknown tool: ", name >>)
        ELSE IF name \in { "install_kubestellar", "get_cluster_info", "create_demo_environment" }
                /\ arguments.none
        THEN Raise("AttributeError", << "'NoneType' object has no attribute 'get'" >>)
        ELSE IF called = "none" THEN unbound
        ELSE IF svc.raised THEN Raise("Exception", << "service error" >>)
        ELSE CASE called = "check_kubestellar_status" -> Return(<< "# KubeStellar Status Check" >>)
               [] called = "check_prerequisites" -> Return(<< "# Prerequisites Check" >>)
               [] called = "get_installation_guide" -> Return(<< "# KubeStellar Installation Guide" >>)
               [] called = "download_demo_script" ->
                      IF svc.ok THEN Return(<< "# Demo Script Downloaded" >>)
                      ELSE Return(<< "# Script Download Failed" >>)
               [] called = "validate_installation_environment" -> Return(<< "# Environment Validation" >>)
               [] called = "get_cluster_info" ->
                      IF svc.ok THEN Return(<< "# Cluster Information" >>)
                      ELSE Return(<< "Error: ", "Context not found" >>)
               [] called = "diagnose_issues" -> Return(<< "# KubeStellar Diagnostics Report" >>)
               [] called = "create_demo_environment" -> Return(<< "# Demo Environment Creation" >>)
               [] called = "cleanup_demo_environment" -> Return(<< "# Demo Environment Cleanup" >>)

\* a variant without the except clause: what the try block raises leaves the handler
handle_call_tool_NoExcept(name, arguments, svc) == TryBody(name, arguments, svc)

\* handle_call_tool: the try block and its `except Exception`
handle_call_tool(name, arguments, svc) ==
    LET body == TryBody(name, arguments, svc)
    IN  IF body.raised
        THEN Return(<< "Error executing ", name, ": " >> \o Tail(body.text))
        ELSE body

\* handle_read_resource: the providers return fixed dictionaries; the except clause
\* logs and re-raises
handle_read_resource(uri) ==
    IF uri \in resource_uris
    THEN Return(<< "json", uri >>)
    ELSE Raise("ValueError", << "Unknown resource URI: ", uri >>)

NoRequest == [kind |-> "none", name |-> "", arguments |-> [none |-> TRUE, dict |-> EmptyDict]]

NoResponse == [raised |-> FALSE, text |-> << >>]

ServerIdle ==
    /\ svPc = "idle"
    /\ svRequest = NoRequest
    /\ svResponse = NoResponse

\* a tools/call request arrives: the handler runs up to its awaited service call, or
\* to its end when its branch awaits none
ServerCallTool ==
    /\ svPc = "idle"
    /\ \E name \in RequestedNames, arguments \in ArgumentDicts :
          /\ svRequest' = [kind |-> "tool", name |-> name, arguments |-> arguments]
          /\ IF ServiceCall(name, arguments) = "none"
             THEN /\ svResponse' = handle_call_tool(name, arguments, [raised |-> FALSE, ok |-> FALSE])
                  /\ svPc' = "responded"
             ELSE /\ svPc' = "awaiting"
                  /\ UNCHANGED svResponse
    /\ UNCHANGED outsideServer

\* the awaited service call is over: the response is formatted and returned, or the
\* except clause answers
ServerServiceDone ==
    /\ svPc = "awaiting"
    /\ \E svc \in ServiceOutcomes :
          svResponse' = handle_call_tool(svRequest.name, svRequest.arguments, svc)
    /\ svPc' = "responded"
    /\ UNCHANGED svRequest
    /\ UNCHANGED outsideServer

\* a resources/read request arrives and is answered
ServerReadResource ==
    /\ svPc = "idle"
    /\ \E uri \in RequestedUris :
          /\ svRequest' = [NoRequest EXCEPT !.kind = "resource", !.name = uri]
          /\ svResponse' = handle_read_resource(uri)
    /\ svPc' = "responded"
    /\ UNCHANGED outsideServer

(***************************************************************************)
(* The run_command calls of one diagnose_issues call, as the event loop    *)
(* sees them: each call starts a process and is awaited                    *)
(***************************************************************************)
\* the most contexts the kubeconfig of the sequencing model holds
MaxSeqContexts == 1

\* the run_command calls of each check, in order, for a kubeconfig with k contexts
\* matching kubeflex/kind/k3d and c more matching only "cluster"
CheckCommands(check_name, k, c) ==
    CASE check_name = "docker_status" -> << "docker ps" >>
      [] check_name = "kubectl_access" -> << "kubectl version --client" >>
      [] check_name = "kubestellar_contexts" -> << "kubectl config get-contexts" >>
      [] check_name = "kubestellar_namespaces" ->
             << "kubectl config get-contexts" >> \o [i \in 1..(2 * k) |-> "kubectl get ns"]
      [] check_name = "cluster_connectivity" ->
             << "kubectl config get-contexts" >> \o [i \in 1..(k + c) |-> "kubectl cluster-info"]
      [] check_name = "port_conflicts" -> << "lsof -i tcp:9443" >>
      [] check_name = "resource_availability" -> << "df -h /", "free -m" >>

\* the run_command calls of the whole loop over checks
RECURSIVE CommandPlan(_, _, _)
CommandPlan(i, k, c) ==
    IF i > Len(checks) THEN << >>
    ELSE CheckCommands(checks[i], k, c) \o CommandPlan(i + 1, k, c)

\* a variant that starts the next call without awaiting the previous one
\* (asyncio.create_task / gather in place of await)
CanIssue_FireAndForget(inflight) == TRUE

\* `await`: the coroutine goes on to its next run_command call only when the call
\* it awaits has returned
CanIssue(inflight) == inflight = {}

SeqIdle ==
    /\ sqPc = "idle"
    /\ sqPlan = << >>
    /\ sqIdx = 1
    /\ sqInFlight = {}
    /\ sqRunning = {}

\* diagnose_issues is called on a host with some kubeconfig
SeqBegin ==
    /\ sqPc = "idle"
    /\ \E k \in 0..MaxSeqContexts, c \in 0..MaxSeqContexts :
          /\ k + c <= MaxSeqContexts
          /\ sqPlan' = CommandPlan(1, k, c)
    /\ sqPc' = "running"
    /\ UNCHANGED <<sqIdx, sqInFlight, sqRunning>>
    /\ UNCHANGED outsideSeq

\* the coroutine reaches its next run_command call: create_subprocess_exec starts
\* the process and the call waits for it
SeqIssue ==
    /\ sqPc = "running"
    /\ sqIdx <= Len(sqPlan)
    /\ CanIssue(sqInFlight)
    /\ sqInFlight' = sqInFlight \cup { sqIdx }
    /\ sqRunning' = sqRunning \cup { sqIdx }
    /\ sqIdx' = sqIdx + 1
    /\ UNCHANGED <<sqPc, sqPlan>>
    /\ UNCHANGED outsideSeq

\* the coroutine reaches its next run_command call and create_subprocess_exec
\* raises: no process, the call returns its failure triple at once
SeqSpawnFails ==
    /\ sqPc = "running"
    /\ sqIdx <= Len(sqPlan)
    /\ CanIssue(sqInFlight)
    /\ sqIdx' = sqIdx + 1
    /\ UNCHANGED <<sqPc, sqPlan, sqInFlight, sqRunning>>
    /\ UNCHANGED outsideSeq

\* the process of a waiting call exits: communicate() is done and the call returns
SeqExit ==
    /\ \E id \in sqInFlight :
          /\ id \in sqRunning
          /\ sqInFlight' = sqInFlight \ { id }
          /\ sqRunning' = sqRunning \ { id }
    /\ UNCHANGED <<sqPc, sqPlan, sqIdx>>
    /\ UNCHANGED outsideSeq

\* the timeout of a waiting call expires: the call returns, its process runs on
SeqTimeout ==
    /\ \E id \in sqInFlight :
          /\ id \in sqRunning
          /\ sqInFlight' = sqInFlight \ { id }
    /\ UNCHANGED <<sqPc, sqPlan, sqIdx, sqRunning>>
    /\ UNCHANGED outsideSeq

\* a process left behind by a timed-out call exits
SeqOrphanExits ==
    /\ \E id \in sqRunning \ sqInFlight : sqRunning' = sqRunning \ { id }
    /\ UNCHANGED <<sqPc, sqPlan, sqIdx, sqInFlight>>
    /\ UNCHANGED outsideSeq

\* the loop over checks is over and every awaited call has returned
SeqEnd ==
    /\ sqPc = "running"
    /\ sqIdx > Len(sqPlan)
    /\ CanIssue(sqInFlight)
    /\ sqPc' = "done"
    /\ UNCHANGED <<sqPlan, sqIdx, sqInFlight, sqRunning>>
    /\ UNCHANGED outsideSeq

(***************************************************************************)
(* Two invocation slots on the module-level service objects: operation     *)
(* calls in flight together, interleaved at their awaits                   *)
(***************************************************************************)
\* the most operation calls started in one run
MaxInvocations == 3

\* the coroutines that can be in flight together
Slots == { 1, 2 }

\* where a dictionary can live: on a service object (shared by every call), or in
\* the frame of the call running in a slot
ServiceCell == 0
Cells == { ServiceCell } \cup Slots

\* a variant that keeps the report as an attribute of the service object
ReportCell_OnService(slot) == ServiceCell

\* `status = {...}` / `result = {...}`: the report is a local of the call
ReportCell(slot) == slot

\* the operations explored
Operations == { "check_kubestellar_status", "cleanup_demo_environment" }

\* a command result as the call that awaited it received it
Received(kind, rs) == [kind |-> kind, rs |-> rs]

\* the kubeconfigs the calls can meet
CallGetContextsResults ==
    { CommandResult(0, JoinLines(<< KindFoo >>), EmptyText),
      CommandResult(0, JoinLines(<< Prod, K3dA >>), EmptyText),
      FailedResult }

\* the five results one compatible context's commands can give
CallProbeResults ==
    { << probe, CommandResult(0, << "n", "/", "a", "\n" >>, EmptyText), FailedResult, wds, its >> :
        probe \in ClusterInfoResults,
        wds \in GetNsResults(Wds1System) \ { FailedResult },
        its \in GetNsResults(Its1System) \ { FailedResult } }

\* the loop body of check_kubestellar_status on the results one context's commands gave
ProbeBody(st, ctx, rs) ==
    CompatibleBody(st, ctx, get_cluster_info(ctx, rs[1], rs[2], rs[3]),
                   check_namespace(Wds1System, rs[4]), check_namespace(Its1System, rs[5]))

\* the end of check_kubestellar_status after the loop
StatusEnd(st) ==
    IF st.compatible_contexts = << >>
    THEN [st EXCEPT !.message =
            Message("No compatible KubeStellar contexts found. Looking for ...", EmptyText, << >>)]
    ELSE st

NoLocals == [contexts |-> << >>, platform |-> "", idx |-> 1]

CallsIdle ==
    /\ ivPc = [s \in Slots |-> "idle"]
    /\ ivOp = [s \in Slots |-> "none"]
    /\ ivLocal = [s \in Slots |-> NoLocals]
    /\ ivReceived = [s \in Slots |-> << >>]
    /\ heap = [c \in Cells |-> NoDict]
    /\ ivStarted = 0

\* check_kubestellar_status is called in a free slot: the status dict is created and
\* get_contexts awaited
CallStatusStart ==
    /\ ivStarted < MaxInvocations
    /\ \E s \in Slots, r \in CallGetContextsResults :
          /\ ivPc[s] = "idle"
          /\ ivPc' = [ivPc EXCEPT ![s] = "loop"]
          /\ ivOp' = [ivOp EXCEPT ![s] = "check_kubestellar_status"]
          /\ heap' = [heap EXCEPT ![ReportCell(s)] = InitialStatus]
          /\ ivLocal' = [ivLocal EXCEPT ![s] = [NoLocals EXCEPT !.contexts = get_contexts(r)]]
          /\ ivReceived' = [ivReceived EXCEPT ![s] = << Received("contexts", << r >>) >>]
    /\ ivStarted' = ivStarted + 1
    /\ UNCHANGED outsideCalls

\* one iteration of the loop of a check_kubestellar_status call
CallStatusStep ==
    /\ \E s \in Slots :
          /\ ivOp[s] = "check_kubestellar_status"
          /\ ivPc[s] = "loop"
          /\ ivLocal[s].idx <= Len(ivLocal[s].contexts)
          /\ LET ctx == ivLocal[s].contexts[ivLocal[s].idx]
             IN  IF ~is_compatible(ctx)
                 THEN /\ ivLocal' = [ivLocal EXCEPT ![s].idx = @ + 1]
                      /\ UNCHANGED <<ivPc, heap, ivReceived>>
                 ELSE \E rs \in CallProbeResults :
                        LET b == ProbeBody(heap[ReportCell(s)], ctx, rs)
                        IN  /\ heap' = [heap EXCEPT ![ReportCell(s)] = b.status]
                            /\ ivReceived' = [ivReceived EXCEPT ![s] = Append(@, Received("probe", rs))]
                            /\ ivPc' = [ivPc EXCEPT ![s] = IF b.returned THEN "done" ELSE "loop"]
                            /\ ivLocal' = [ivLocal EXCEPT ![s].idx = IF b.returned THEN @ ELSE @ + 1]
    /\ UNCHANGED <<ivOp, ivStarted>>
    /\ UNCHANGED outsideCalls

\* the loop of a check_kubestellar_status call is over
CallStatusFinish ==
    /\ \E s \in Slots :
          /\ ivOp[s] = "check_kubestellar_status"
          /\ ivPc[s] = "loop"
          /\ ivLocal[s].idx > Len(ivLocal[s].contexts)
          /\ heap' = [heap EXCEPT ![ReportCell(s)] = StatusEnd(@)]
          /\ ivPc' = [ivPc EXCEPT ![s] = "done"]
    /\ UNCHANGED <<ivOp, ivLocal, ivReceived, ivStarted>>
    /\ UNCHANGED outsideCalls

\* cleanup_demo_environment(platform) is called in a free slot: the result dict is
\* created
CallCleanupStart ==
    /\ ivStarted < MaxInvocations
    /\ \E s \in Slots, platform \in { "kind", "minikube" } :
          /\ ivPc[s] = "idle"
          /\ ivPc' = [ivPc EXCEPT ![s] = "loop"]
          /\ ivOp' = [ivOp EXCEPT ![s] = "cleanup_demo_environment"]
          /\ heap' = [heap EXCEPT ![ReportCell(s)] = InitialCleanupResult(platform)]
          /\ ivLocal' = [ivLocal EXCEPT ![s] = [NoLocals EXCEPT !.platform = platform]]
    /\ ivStarted' = ivStarted + 1
    /\ UNCHANGED ivReceived
    /\ UNCHANGED outsideCalls

\* one iteration of a loop of a cleanup_demo_environment call: a cluster deletion,
\* the UnboundLocalError of an unsupported platform, or a context deletion
CallCleanupStep ==
    /\ \E s \in Slots :
          /\ ivOp[s] = "cleanup_demo_environment"
          /\ LET cell == ReportCell(s)
                 idx == ivLocal[s].idx
             IN  \/ /\ ivPc[s] = "loop"
                    /\ idx <= Len(clusters)
                    /\ ivLocal[s].platform \in { "kind", "k3d" }
                    /\ \E r \in DeleteResults :
                          /\ heap' = [heap EXCEPT ![cell] = ClusterDeletion(@, clusters[idx], r)]
                          /\ ivReceived' = [ivReceived EXCEPT ![s] = Append(@, Received("delete", << r >>))]
                    /\ ivLocal' = [ivLocal EXCEPT ![s].idx = IF idx = Len(clusters) THEN 1 ELSE @ + 1]
                    /\ ivPc' = [ivPc EXCEPT ![s] = IF idx = Len(clusters) THEN "contexts" ELSE "loop"]
                 \/ /\ ivPc[s] = "loop"
                    /\ ivLocal[s].platform \notin { "kind", "k3d" }
                    /\ heap' = [heap EXCEPT ![cell] = CleanupExcept(@, "UnboundLocalError").result]
                    /\ ivPc' = [ivPc EXCEPT ![s] = "done"]
                    /\ UNCHANGED <<ivLocal, ivReceived>>
                 \/ /\ ivPc[s] = "contexts"
                    /\ idx <= Len(contexts_to_clean)
                    /\ \E r \in DeleteResults :
                          /\ heap' = [heap EXCEPT ![cell] = ContextDeletion(@, contexts_to_clean[idx], r)]
                          /\ ivReceived' = [ivReceived EXCEPT ![s] = Append(@, Received("delete", << r >>))]
                    /\ ivLocal' = [ivLocal EXCEPT ![s].idx = @ + 1]
                    /\ UNCHANGED ivPc
    /\ UNCHANGED <<ivOp, ivStarted>>
    /\ UNCHANGED outsideCalls

\* both loops of a cleanup_demo_environment call are over: success is settled
CallCleanupFinish ==
    /\ \E s \in Slots :
          /\ ivOp[s] = "cleanup_demo_environment"
          /\ ivPc[s] = "contexts"
          /\ ivLocal[s].idx > Len(contexts_to_clean)
          /\ LET res == heap[ReportCell(s)]
             IN  heap' = [heap EXCEPT ![ReportCell(s)] = [res EXCEPT !.success = CleanupSuccess(res)]]
          /\ ivPc' = [ivPc EXCEPT ![s] = "done"]
    /\ UNCHANGED <<ivOp, ivLocal, ivReceived, ivStarted>>
    /\ UNCHANGED outsideCalls

\* a call returns its report to the handler, which formats and sends it: the frame
\* of the call, with every local dictionary, is gone
CallReturn ==
    /\ \E s \in Slots :
          /\ ivPc[s] = "done"
          /\ ivPc' = [ivPc EXCEPT ![s] = "idle"]
          /\ ivOp' = [ivOp EXCEPT ![s] = "none"]
          /\ ivLocal' = [ivLocal EXCEPT ![s] = NoLocals]
          /\ ivReceived' = [ivReceived EXCEPT ![s] = << >>]
          /\ heap' = [heap EXCEPT ![s] = NoDict]
    /\ UNCHANGED ivStarted
    /\ UNCHANGED outsideCalls

(***************************************************************************)
(* KubectlHelper.get_contexts and check_namespace called on their own      *)
(***************************************************************************)
\* the longest stdout explored, in characters
MaxStdoutLen == 4

\* the characters the explored stdout is made of
StdoutChars == { "a", "b", " ", "\n" }

\* every text of at most n characters
Texts(n) == UNION { [1..k -> StdoutChars] : k \in 0..n }

\* what run_command can return to the helper: an exit code with the decoded stdout,
\* or its `1, "", message` for a timeout and for a kubectl that is not installed
HelperResults ==
    { CommandResult(rc, out, EmptyText) : rc \in { 0, 1 }, out \in Texts(MaxStdoutLen) }
    \cup { CommandResult(1, EmptyText, TimeoutMessage(DefaultTimeout)),
           CommandResult(1, EmptyText, ExcMessage([type |-> "FileNotFoundError", arg |-> "kubectl"])) }

\* the namespace arguments explored
HelperNamespaces == { << "a" >>, << "a", "b" >> }

NoCall == [op |-> "none", namespace |-> << >>, r |-> FailedResult]
NoReturn == [list |-> << >>, bool |-> FALSE]

HelperIdle ==
    /\ khPc = "idle"
    /\ khCall = NoCall
    /\ khReturn = NoReturn

\* get_contexts(): the command runs and the list is returned
HelperGetContexts ==
    /\ khPc = "idle"
    /\ \E r \in HelperResults :
          /\ khCall' = [op |-> "get_contexts", namespace |-> << >>, r |-> r]
          /\ khReturn' = [NoReturn EXCEPT !.list = get_contexts(r)]
    /\ khPc' = "returned"
    /\ UNCHANGED outsideHelper

\* check_namespace(namespace, context): the command runs and the bool is returned
HelperCheckNamespace ==
    /\ khPc = "idle"
    /\ \E namespace \in HelperNamespaces, r \in HelperResults :
          /\ khCall' = [op |-> "check_namespace", namespace |-> namespace, r |-> r]
          /\ khReturn' = [NoReturn EXCEPT !.bool = check_namespace(namespace, r)]
    /\ khPc' = "returned"
    /\ UNCHANGED outsideHelper

(***************************************************************************)
(* Specifications                                                          *)
(***************************************************************************)
Init == RunnerIdle /\ StatusIdle /\ DiagIdle /\ ClusterIdle /\ PrereqIdle
        /\ DemoIdle /\ ServerIdle /\ SeqIdle /\ CallsIdle /\ HelperIdle

RunnerNext ==
    \/ RunCall
    \/ SpawnStarts
    \/ SpawnFails
    \/ Tick
    \/ ProcExitsInTime
    \/ RunReturn
    \/ TimeoutExpires
    \/ OrphanExits

StatusNext ==
    \/ StatusStart
    \/ StatusSkip
    \/ StatusProbe
    \/ StatusFinish

\* one run_command call
SpecRunner == Init /\ [][RunnerNext]_vars

\* one check_kubestellar_status call
SpecStatus == Init /\ [][StatusNext]_vars

DiagNext ==
    \/ DiagStart
    \/ DiagStep
    \/ DiagFinish

\* one diagnose_issues call
SpecDiag == Init /\ [][DiagNext]_vars

ClusterNext ==
    \/ ClusterStart
    \/ ClusterSingle
    \/ ClusterSkip
    \/ ClusterProbe
    \/ ClusterFinish

\* one ClusterManager.get_cluster_info call
SpecCluster == Init /\ [][ClusterNext]_vars

PrereqNext ==
    \/ PrereqStart
    \/ PrereqTool
    \/ PrereqGoVersion
    \/ PrereqDockerRunning
    \/ PrereqDockerSkipped
    \/ PrereqFinish

\* one check_prerequisites call
SpecPrereq == Init /\ [][PrereqNext]_vars

DemoNext ==
    \/ DemoCreateCall
    \/ DemoDownload
    \/ DemoTempfileFails
    \/ DemoWriteAndChmod
    \/ DemoWriteFails
    \/ DemoScript
    \/ DemoCleanupCall
    \/ DemoDeleteCluster
    \/ DemoDeleteUnbound
    \/ DemoClustersDone
    \/ DemoDeleteContext
    \/ DemoCleanupFinish

\* a create_demo_environment call followed by a cleanup_demo_environment call with
\* the same platform, or a cleanup_demo_environment call on its own
SpecDemo == Init /\ [][DemoNext]_vars

ServerNext ==
    \/ ServerCallTool
    \/ ServerServiceDone
    \/ ServerReadResource

\* one request to the server
SpecServer == Init /\ [][ServerNext]_vars

SeqNext ==
    \/ SeqBegin
    \/ SeqIssue
    \/ SeqSpawnFails
    \/ SeqExit
    \/ SeqTimeout
    \/ SeqOrphanExits
    \/ SeqEnd

\* the run_command calls of one diagnose_issues call
SpecSeq == Init /\ [][SeqNext]_vars

CallsNext ==
    \/ CallStatusStart
    \/ CallStatusStep
    \/ CallStatusFinish
    \/ CallCleanupStart
    \/ CallCleanupStep
    \/ CallCleanupFinish
    \/ CallReturn

\* operation calls in flight together, interleaved at their awaits
SpecCalls == Init /\ [][CallsNext]_vars

HelperNext ==
    \/ HelperGetContexts
    \/ HelperCheckNamespace

\* the two KubectlHelper methods, each on every explored command result
SpecHelper == Init /\ [][HelperNext]_vars

(***************************************************************************)
(* Properties of run_command                                               *)
(***************************************************************************)
\* the call is over: it returned or it raised
RunOver == runPc \in {"returned", "raised"}

\* the call ran into the timeout: wait_for raised TimeoutError
TimedOut == RunOver /\ caught.type = "TimeoutError"

\* the process could not be spawned
LaunchFailed == RunOver /\ caught.type \in {"FileNotFoundError", "PermissionError", "TypeError"}

\* C1: a run_command call with timeout N > 0 whose process is still running when
\* the N seconds are over does not raise and returns exactly
\* (1, "", "Command timed out after N seconds").
C1_TimeoutIsAResult ==
    TimedOut =>
        /\ timeout > 0
        /\ elapsed = timeout
        /\ runPc = "returned"
        /\ result = << 1, << >>, << "Command timed out after " >> \o Digits(timeout) \o << " seconds" >> >>

C1_Witness ==
    /\ TimedOut
    /\ timeout = 2
    /\ result[3] = << "Command timed out after ", "2", " seconds" >>

\* C2: in no state is a process started by run_command still running after that
\* run_command call has returned (on a timeout the process has been killed).
C2_NoProcessOutlivesTheCall ==
    runPc = "returned" => procState # "running"

\* C3: run_command never propagates a launch failure: when the process cannot be
\* spawned, no process runs, the call does not raise, and the caller receives the
\* triple (1, "", message of the failure).
C3_LaunchFailureIsAResult ==
    LaunchFailed =>
        /\ runPc = "returned"
        /\ procState = "none"
        /\ Len(result) = 3
        /\ result[1] = 1
        /\ result[2] = << >>
        /\ result[3] = ExcMessage(caught)
        /\ result[3] # << >>

C3_Witness ==
    /\ LaunchFailed
    /\ caught.type = "FileNotFoundError"
    /\ command[1] = "kubectl"
    /\ result = << 1, << >>, << "[Errno 2] No such file or directory: ", "kubectl" >> >>

(***************************************************************************)
(* Properties of check_kubestellar_status                                  *)
(***************************************************************************)
\* the position of a context in the list get_contexts returned
Pos(c) == CHOOSE i \in DOMAIN contexts : contexts[i] = c

\* the probes found context c accessible with both required namespaces
IsReady(c) == c \in DOMAIN seen /\ seen[c].accessible /\ seen[c].wds1 /\ seen[c].its1

\* the contexts a logged command, a compatible_contexts entry or a cluster_info key names
Touched ==
    { cmdLog[i].context : i \in DOMAIN cmdLog } \cup Names(status.compatible_contexts)
    \cup DOMAIN status.cluster_info

\* C4: find-first. As soon as the probes find a compatible context accessible with
\* both wds1-system and its1-system, the check is over, with context = that context
\* and all_ready = true; no command was issued for a context after it, and no later
\* context is in compatible_contexts or cluster_info.
C4_FindFirst ==
    \A c \in DOMAIN seen :
        IsReady(c) =>
            /\ scPc = "done"
            /\ status.context = c
            /\ status.context_found
            /\ status.wds1_namespace
            /\ status.its1_namespace
            /\ status.all_ready
            /\ \A t \in Touched \ {EmptyText} : Pos(t) <= Pos(c)
            /\ cmdLog[Len(cmdLog)] = KubectlCmd("get ns", c, Its1System)

C4_Witness ==
    \E c \in DOMAIN seen :
        /\ IsReady(c)
        /\ scPc = "done"
        /\ \E i \in DOMAIN contexts : i < Pos(c) /\ is_compatible(contexts[i])
        /\ \E i \in DOMAIN contexts : i > Pos(c) /\ is_compatible(contexts[i])

\* no context was found ready by the end of the check
NoneReady == scPc = "done" /\ ~\E c \in DOMAIN seen : IsReady(c)

\* C5 as claimed: when no context has both required namespaces, the partial status
\* is that of the last compatible context examined (last-compatible-wins). Read in
\* the claim's favour: nothing is asked when that last context was not accessible.
C5_LastCompatibleWins ==
    (NoneReady /\ status.compatible_contexts # << >>) =>
        LET last == status.compatible_contexts[Len(status.compatible_contexts)]
        IN  seen[last].accessible =>
                /\ status.context = last
                /\ status.context_found
                /\ status.wds1_namespace = seen[last].wds1
                /\ status.its1_namespace = seen[last].its1

\* the compatible contexts examined and found accessible, by position
AccessiblePositions ==
    { i \in DOMAIN status.compatible_contexts : seen[status.compatible_contexts[i]].accessible }

\* C5 as amended: when no context has both required namespaces, the partial status
\* is that of the FIRST compatible context found accessible; a compatible context
\* that is not accessible never sets it, and with no accessible compatible context
\* the status keeps its initial values.
C5_FirstAccessibleWins ==
    NoneReady =>
        /\ ~status.all_ready
        /\ IF AccessiblePositions = {}
           THEN /\ status.context = EmptyText
                /\ ~status.context_found
                /\ ~status.wds1_namespace
                /\ ~status.its1_namespace
           ELSE LET first == status.compatible_contexts[
                                CHOOSE i \in AccessiblePositions :
                                    \A j \in AccessiblePositions : i <= j]
                IN  /\ status.context = first
                    /\ status.context_found
                    /\ status.wds1_namespace = seen[first].wds1
                    /\ status.its1_namespace = seen[first].its1

C5_Witness ==
    /\ NoneReady
    /\ Cardinality(AccessiblePositions) >= 2
    /\ \E i, j \in AccessiblePositions :
          /\ i < j
          /\ seen[status.compatible_contexts[i]].wds1 # seen[status.compatible_contexts[j]].wds1
    /\ ~seen[status.compatible_contexts[1]].accessible

\* C6: with exactly one compatible context in the list, accessible, with
\* wds1-system and without its1-system, the result has context = that context,
\* context_found, wds1_namespace, not its1_namespace, not all_ready, and no command
\* was issued for a context that is not compatible.
C6_PartialScenario ==
    \A c \in DOMAIN seen :
        ( /\ scPc = "done"
          /\ { i \in DOMAIN contexts : is_compatible(contexts[i]) } = { Pos(c) }
          /\ seen[c] = Seen(TRUE, TRUE, TRUE, FALSE) ) =>
            /\ status.context = c
            /\ status.context_found
            /\ status.wds1_namespace
            /\ ~status.its1_namespace
            /\ ~status.all_ready
            /\ status.compatible_contexts = << c >>
            /\ \A i \in DOMAIN cmdLog : cmdLog[i].context \in {EmptyText, c}

C6_Witness ==
    /\ scPc = "done"
    /\ contexts = << KindFoo, Prod >>
    /\ seen = DictPut(EmptyDict, KindFoo, Seen(TRUE, TRUE, TRUE, FALSE))
    /\ status.context = KindFoo
    /\ ~status.all_ready

(***************************************************************************)
(* Properties of diagnose_issues                                           *)
(***************************************************************************)
\* the checks recorded with a fail or an error outcome
FailedChecks ==
    { n \in DOMAIN diagnostics.checks : diagnostics.checks[n].status \in {"fail", "error"} }

\* C7: failure isolation. diagnose_issues never raises; a check that raised is
\* recorded with status "error" and counted as a failure, and every check after
\* it in the battery order is still run and recorded.
C7_FailureIsolation ==
    /\ dgPc # "raised"
    /\ DOMAIN diagnostics.checks = { checks[i] : i \in 1..(dgIdx - 1) }
    /\ \A i \in DOMAIN dgRaised : diagnostics.checks[dgRaised[i]].status = "error"
    /\ \A n \in DOMAIN diagnostics.checks :
          diagnostics.checks[n].status = "error" => n \in Names(dgRaised)
    /\ diagnostics.summary.failures = Cardinality(FailedChecks)
    /\ diagnostics.summary.failures >= Len(dgRaised)
    /\ dgPc = "done" => dgIdx = 8

C7_Witness ==
    /\ dgPc = "done"
    /\ dgRaised = << "docker_status", "resource_availability" >>
    /\ diagnostics.checks["kubectl_access"].status = "pass"
    /\ diagnostics.checks["port_conflicts"].status = "warning"
    /\ diagnostics.checks["resource_availability"].message
          = << "Check failed: ", "invalid literal for int() with base 10: ", SuperscriptTwo >>
    /\ diagnostics.summary.failures = 2

\* C8: after any run of diagnose_issues, checks holds exactly the seven fixed
\* check names, summary.total_checks = 7 = the number of entries in checks, and
\* every entry's status is one of pass, warning, fail, error.
C8_SevenChecks ==
    dgPc = "done" =>
        /\ DOMAIN diagnostics.checks =
              { "docker_status", "kubectl_access", "kubestellar_contexts",
                "kubestellar_namespaces", "cluster_connectivity", "port_conflicts",
                "resource_availability" }
        /\ diagnostics.summary.total_checks = 7
        /\ Cardinality(DOMAIN diagnostics.checks) = diagnostics.summary.total_checks
        /\ \A n \in DOMAIN diagnostics.checks :
              diagnostics.checks[n].status \in {"pass", "warning", "fail", "error"}

C8_Witness ==
    /\ dgPc = "done"
    /\ { diagnostics.checks[n].status : n \in DOMAIN diagnostics.checks }
          = {"pass", "warning", "fail", "error"}
    /\ "resource_availability" \in Names(dgRaised)

\* C9: the overall status of a returned report is a function of the summary
\* counts: failures > 0 (a fail or an error outcome) gives "issues_found",
\* otherwise warnings > 0 gives "warnings", otherwise "healthy"; it is never
\* "running".
C9_OverallStatus ==
    dgPc = "done" =>
        /\ (diagnostics.summary.failures > 0) = (FailedChecks # {})
        /\ diagnostics.summary.failures > 0 => diagnostics.status = "issues_found"
        /\ (diagnostics.summary.failures = 0 /\ diagnostics.summary.warnings > 0)
              => diagnostics.status = "warnings"
        /\ (diagnostics.summary.failures = 0 /\ diagnostics.summary.warnings = 0)
              => diagnostics.status = "healthy"
        /\ diagnostics.status # "running"

C9_Witness ==
    /\ dgPc = "done"
    /\ diagnostics.summary.failures > 0
    /\ diagnostics.summary.warnings > 0
    /\ diagnostics.status = "issues_found"

\* C10 as claimed: every CheckOutcome of a report, passing and synthetic error
\* outcomes included, carries both an issues and a recommendations sequence.
C10_IssuesAlwaysPresent ==
    dgPc = "done" =>
        \A n \in DOMAIN diagnostics.checks :
            {"issues", "recommendations"} \subseteq DOMAIN diagnostics.checks[n]

\* C10 as amended: every CheckOutcome carries a status and a message; a passing
\* outcome and a synthetic error outcome carry neither an issues nor a
\* recommendations key; a warning or fail outcome carries a non-empty issues
\* sequence; a recommendations key, where present, holds a non-empty sequence;
\* the report's own issues_found is empty exactly when no outcome carries issues.
C10_IssuesOnlyWhenReported ==
    /\ \A n \in DOMAIN diagnostics.checks :
          LET r == diagnostics.checks[n]
          IN  /\ {"status", "message"} \subseteq DOMAIN r
              /\ r.status \in {"pass", "error"} => DOMAIN r = {"status", "message"}
              /\ r.status \in {"warning", "fail"} => ("issues" \in DOMAIN r /\ r.issues # << >>)
              /\ "recommendations" \in DOMAIN r => r.recommendations # << >>
    /\ (diagnostics.issues_found = << >>)
          = (\A n \in DOMAIN diagnostics.checks : "issues" \notin DOMAIN diagnostics.checks[n])

C10_Witness ==
    /\ dgPc = "done"
    /\ DOMAIN diagnostics.checks["docker_status"] = {"status", "message"}
    /\ diagnostics.checks["docker_status"].status = "pass"
    /\ DOMAIN diagnostics.checks["kubectl_access"] = {"status", "message"}
    /\ diagnostics.checks["kubectl_access"].status = "error"
    /\ DOMAIN diagnostics.checks["kubestellar_namespaces"] = {"status", "message", "issues"}
    /\ DOMAIN diagnostics.checks["port_conflicts"]
          = {"status", "message", "issues", "recommendations"}

(***************************************************************************)
(* Properties of ClusterManager.get_cluster_info                           *)
(***************************************************************************)
\* the commands issued for one context, in order
IssuedFor(ctx) == SelectSeq(cmLog, LAMBDA c : c.context = ctx)

\* C11: when the accessibility probe of a context fails, its info has
\* accessible = false with empty nodes and namespaces, the probe is the only command
\* issued for that context, and the info has no kubestellar_namespaces and no
\* kubestellar_resources entry; no inaccessible info ever has these entries.
C11_ShortCircuit ==
    /\ \A ctx \in DOMAIN cmProbed :
          ~cmProbed[ctx] =>
              /\ ctx \in DOMAIN cmResult.clusters
              /\ cmResult.clusters[ctx].accessible = FALSE
              /\ cmResult.clusters[ctx].nodes = << >>
              /\ cmResult.clusters[ctx].namespaces = << >>
              /\ IssuedFor(ctx) = << KubectlCmd("cluster-info", ctx, EmptyText) >>
    /\ \A ctx \in DOMAIN cmResult.clusters :
          ~cmResult.clusters[ctx].accessible =>
              DOMAIN cmResult.clusters[ctx] = {"context", "accessible", "nodes", "namespaces"}

\* a finished call that met a context whose probe failed and one whose probe
\* succeeded, the latter carrying the namespace details and nine commands
C11_Witness ==
    /\ cmPc = "done"
    /\ \E a, b \in DOMAIN cmProbed :
          /\ ~cmProbed[a]
          /\ Len(IssuedFor(a)) = 1
          /\ cmProbed[b]
          /\ "kubestellar_namespaces" \in DOMAIN cmResult.clusters[b]
          /\ cmResult.clusters[b].kubestellar_namespaces[Wds1System]
          /\ Len(IssuedFor(b)) = 9

(***************************************************************************)
(* Properties of check_prerequisites                                       *)
(***************************************************************************)
\* the tools whose absence is not recorded in missing
optional_tools == { Go, Kind, K3d }

\* the run_command calls that ran `docker ps`
DockerPsRuns == SelectSeq(prLog, LAMBDA c : c = "docker ps")

\* C12: a call that has returned reports every absent required tool (kubectl,
\* docker, helm) in missing with all_satisfied false; when the three required tools
\* are present, docker is running and the only shortcoming is the absence of go,
\* kind or k3d, all_satisfied is not false; an absent tool's entry says not installed.
C12_OnlyRequiredToolsDecide ==
    prPc = "done" =>
        /\ \A t \in required_tools :
              ~prFound[t] => /\ ~prResults.all_satisfied
                             /\ t \in Names(prResults.missing)
        /\ \A t \in Names(tools) : ~prFound[t] => ~prResults.checks[t].installed
        /\ ( /\ \A t \in required_tools : prFound[t]
             /\ prDockerPs = "ok"
             /\ \E t \in optional_tools : ~prFound[t]
             /\ GoVersionEntry \notin Names(prResults.missing) )
           => prResults.all_satisfied

\* C13 as stated: docker ps runs only after a passed docker version check, and when
\* it fails the docker entry says not installed, all_satisfied is false and missing
\* holds "docker (running)".
C13_DockerEntryNotInstalled ==
    /\ DockerPsRuns # << >> => Docker \in DOMAIN prFound /\ prFound[Docker]
    /\ (prPc = "done" /\ prDockerPs = "failed") =>
          /\ ~prResults.checks[Docker].installed
          /\ ~prResults.all_satisfied
          /\ DockerRunning \in Names(prResults.missing)

\* C13: docker ps runs exactly when the docker version check passed, and once; when
\* it fails the docker entry keeps installed = true and carries the not-running
\* error, all_satisfied is false, and missing holds "docker (running)" and no plain
\* "docker" entry.
C13_DockerLiveness ==
    /\ DockerPsRuns # << >> => Docker \in DOMAIN prFound /\ prFound[Docker]
    /\ Len(DockerPsRuns) = (IF prDockerPs = "none" THEN 0 ELSE 1)
    /\ prPc \in {"recommend", "done"} => (prFound[Docker] <=> prDockerPs # "none")
    /\ (prPc \in {"recommend", "done"} /\ prDockerPs = "failed") =>
          /\ prResults.checks[Docker].installed
          /\ prResults.checks[Docker].error = << "D", "o", "c", "k", "e", "r", " ", "i", "s", " ", "n", "o", "t", " ", "r", "u", "n", "n", "i", "n", "g", " ", "o", "r", " ", "n", "o", "t", " ", "a", "c", "c", "e", "s", "s", "i", "b", "l", "e" >>
          /\ ~prResults.all_satisfied
          /\ DockerRunning \in Names(prResults.missing)
          /\ Docker \notin Names(prResults.missing)

\* a returned call in which every tool was found, go is recent, and only the docker
\* ps probe failed
C13_Witness ==
    /\ prPc = "done"
    /\ \A t \in Names(tools) : prFound[t]
    /\ prDockerPs = "failed"
    /\ prResults.missing = << DockerRunning >>
    /\ prResults.recommendations = << << "Install Docker or Podman" >> >>

(***************************************************************************)
(* Properties of the demo environment operations                           *)
(***************************************************************************)
\* create_demo_environment was called and has returned
CreateReturned == dmResult # NoDict /\ dmPc \in {"created", "clusters", "contexts", "cleaned"}

\* the commands create_demo_environment issues
CreateCmds ==
    SelectSeq(dmLog, LAMBDA c : c.cmd \in {"curl -s", "chmod +x", "bash script_path --platform"})

\* C14: for a platform other than kind and k3d, create_demo_environment returns
\* at once with success = false and the unsupported-platform message, having issued
\* no command and created no transient file.
C14_UnsupportedPlatformRejected ==
    (dmResult # NoDict /\ dmPlatform \notin {"kind", "k3d"}) =>
        /\ dmPc \notin {"tempfile", "write", "script"}
        /\ dmResult.success = FALSE
        /\ dmResult.message = << "Unsupported platform: ", dmPlatform, ". Use 'kind' or 'k3d'" >>
        /\ CreateCmds = << >>
        /\ dmFile = "none"

\* create_demo_environment("minikube") has returned
C14_Witness ==
    /\ dmPc = "created"
    /\ dmPlatform = "minikube"
    /\ dmResult.platform = "minikube"
    /\ ~dmResult.success
    /\ dmLog = << >>

\* C15: once create_demo_environment has returned, the transient script file it
\* created no longer exists.
C15_ScriptFileRemoved ==
    CreateReturned => dmFile # "exists"

\* C16: for platform kind or k3d, cleanup_demo_environment reports success exactly
\* when fewer than three cluster deletions failed, with one errors entry per failed
\* deletion.
C16_CleanupSuccessPolicy ==
    (dmPc = "cleaned" /\ dmPlatform \in {"kind", "k3d"}) =>
        /\ clResult.success = (clFailed < 3)
        /\ Len(clResult.errors) = clFailed
        /\ Len(clResult.cleaned_clusters) = 3 - clFailed

\* a cleanup in which two of the three deletions failed: success with two errors
C16_Witness ==
    /\ dmPc = "cleaned"
    /\ dmPlatform = "k3d"
    /\ clFailed = 2
    /\ clResult.success
    /\ Len(clResult.errors) = 2
    /\ clResult.cleaned_clusters = << "cluster1" >>

\* C17: neither create_demo_environment nor the cleanup_demo_environment that
\* follows it with the same platform raises, whatever the platform and the command
\* outcomes; each returns its result structure.
C17_RoundTripNeverRaises ==
    /\ ~dmRaised
    /\ CreateReturned =>
          /\ DOMAIN dmResult = {"success", "platform", "message", "clusters_created",
                                "contexts_created", "script_output", "next_steps"}
          /\ dmResult.platform = dmPlatform
    /\ dmPc = "cleaned" =>
          /\ DOMAIN clResult = {"success", "platform", "cleaned_clusters",
                                "cleaned_contexts", "errors"}
          /\ clResult.platform = dmPlatform

\* a rejected create("minikube") followed by cleanup("minikube"), which returns the
\* UnboundLocalError as an errors entry
C17_Witness ==
    /\ dmPc = "cleaned"
    /\ CreateReturned
    /\ dmPlatform = "minikube"
    /\ ~dmResult.success
    /\ ~clResult.success
    /\ clResult.errors = << << DemoExcMessage("UnboundLocalError") >> >>
    /\ dmLog = << >>

(***************************************************************************)
(* Properties of the server's handlers                                     *)
(***************************************************************************)
\* C18: every tool call is answered with a text and never raises, whatever the
\* tool name and the arguments; the "Unknown tool" answer is given exactly for the
\* names without a branch, and a resource read raises exactly for the URIs without
\* a branch, with a ValueError naming the URI.
C18_EveryCallAnswered ==
    svPc = "responded" =>
        /\ svRequest.kind = "tool" =>
              /\ ~svResponse.raised
              /\ svResponse.text # << >>
              /\ (svResponse.text[1] = "Unknown tool: ") <=>
                     svRequest.name \notin
                         { "check_kubestellar_status", "check_prerequisites",
                           "install_kubestellar", "get_cluster_info", "diagnose_issues",
                           "create_demo_environment" }
        /\ svRequest.kind = "resource" =>
              /\ svResponse.raised <=>
                     svRequest.name \notin
                         { "kubestellar://docs/installation", "kubestellar://docs/index",
                           "kubestellar://scripts/demo", "kubestellar://scripts/prerequisites",
                           "kubestellar://scripts/all" }
              /\ svResponse.raised =>
                     svResponse.text = << "ValueError", "Unknown resource URI: ", svRequest.name >>

\* install_kubestellar with an unsupported method on an unsupported platform: the
\* UnboundLocalError is answered as a text
C18_Witness ==
    /\ svPc = "responded"
    /\ svRequest.kind = "tool"
    /\ svRequest.name = "install_kubestellar"
    /\ ~svRequest.arguments.none
    /\ DOMAIN svRequest.arguments.dict = { "method", "platform" }
    /\ svRequest.arguments.dict["method"] = "upgrade"
    /\ svRequest.arguments.dict["platform"] = "minikube"
    /\ ~svResponse.raised
    /\ svResponse.text[1] = "Error executing "
    /\ svResponse.text[2] = "install_kubestellar"

(***************************************************************************)
(* Properties of the sequencing of run_command calls                       *)
(***************************************************************************)
\* C19: within one operation call at most one run_command call is in flight, and
\* it is the one issued last: a process is started only after every earlier
\* run_command call of the operation has returned.
C19_CallsAreSequential ==
    /\ Cardinality(sqInFlight) <= 1
    /\ sqInFlight \subseteq { sqIdx - 1 }
    /\ \A id \in sqRunning : id < sqIdx

\* a finished diagnose_issues call on a kubeconfig with one compatible context:
\* eleven calls, one after the other
C19_Witness ==
    /\ sqPc = "done"
    /\ Len(sqPlan) = 11
    /\ sqIdx = 12
    /\ sqInFlight = {}

(***************************************************************************)
(* C20: calls in flight together share no report state                     *)
(***************************************************************************)
\* the status dict a check_kubestellar_status call holds after the loop iterations
\* that consumed `entries`, computed from the call's own received results only
RECURSIVE StatusReplay(_, _, _, _)
StatusReplay(st, ctxs, i, entries) ==
    IF i > Len(ctxs) THEN st
    ELSE IF ~is_compatible(ctxs[i]) THEN StatusReplay(st, ctxs, i + 1, entries)
    ELSE IF entries = << >> THEN st
    ELSE LET b == ProbeBody(st, ctxs[i], entries[1].rs)
         IN  IF b.returned THEN b.status
             ELSE StatusReplay(b.status, ctxs, i + 1, Tail(entries))

\* the result dict a cleanup_demo_environment call holds after the deletions that
\* gave `entries`
RECURSIVE CleanupReplay(_, _, _)
CleanupReplay(res, k, entries) ==
    IF entries = << >> THEN res
    ELSE IF k <= Len(clusters)
         THEN CleanupReplay(ClusterDeletion(res, clusters[k], entries[1].rs[1]), k + 1, Tail(entries))
         ELSE CleanupReplay(ContextDeletion(res, contexts_to_clean[k - Len(clusters)], entries[1].rs[1]),
                            k + 1, Tail(entries))

\* the report of the call in a slot, as its own arguments and its own received
\* results alone determine it
OwnReport(s) ==
    IF ivOp[s] = "check_kubestellar_status"
    THEN LET ctxs == get_contexts(ivReceived[s][1].rs[1])
             st == StatusReplay(InitialStatus, ctxs, 1, Tail(ivReceived[s]))
         IN  IF ivPc[s] = "done" THEN StatusEnd(st) ELSE st
    ELSE LET start == InitialCleanupResult(ivLocal[s].platform)
             res == CleanupReplay(start, 1, ivReceived[s])
         IN  IF ivPc[s] # "done" THEN res
             ELSE IF ivLocal[s].platform \in { "kind", "k3d" }
                  THEN [res EXCEPT !.success = CleanupSuccess(res)]
                  ELSE CleanupExcept(start, "UnboundLocalError").result

\* C20: however two operation calls interleave, the service objects hold no report,
\* a slot whose call has returned holds nothing of it, and the report of each call
\* in flight is the one its own arguments and its own command results determine
C20_CallsAreIndependent ==
    /\ heap[ServiceCell] = NoDict
    /\ \A s \in Slots :
          IF ivPc[s] = "idle"
          THEN heap[s] = NoDict /\ ivReceived[s] = << >>
          ELSE heap[s] = OwnReport(s)

\* C20 witness: the third call started in the slot of a returned one while another
\* call is in flight; both have received results and their reports differ
C20_Witness ==
    /\ ivStarted = MaxInvocations
    /\ ivPc[1] = "done" /\ ivPc[2] = "loop"
    /\ ivOp[1] = "check_kubestellar_status" /\ ivOp[2] = "check_kubestellar_status"
    /\ Len(ivReceived[1]) > 1 /\ Len(ivReceived[2]) > 1
    /\ ivReceived[1] # ivReceived[2]
    /\ heap[1] # heap[2]
    /\ heap[1] = OwnReport(1) /\ heap[2] = OwnReport(2)

(***************************************************************************)
(* C21: demo cleanup is a best-effort teardown                             *)
(***************************************************************************)
\* cleanup_demo_environment has returned for a platform with a deletion command
CleanupReturned == dmPc = "cleaned" /\ dmPlatform \in { "kind", "k3d" }

\* the deletion commands in the log, in the order issued
DeletionCmds ==
    SelectSeq(dmLog, LAMBDA e : e.cmd \in { "kind delete cluster --name", "k3d cluster delete",
                                            "kubectl config delete-context" })

\* the five deletions of a full teardown, in the order of the code
FullTeardown ==
    [k \in 1..(Len(clusters) + Len(contexts_to_clean)) |->
        IF k <= Len(clusters)
        THEN DemoCmd(IF dmPlatform = "kind" THEN "kind delete cluster --name"
                                            ELSE "k3d cluster delete", clusters[k])
        ELSE DemoCmd("kubectl config delete-context", contexts_to_clean[k - Len(clusters)])]

\* the context deletions that failed: attempted and not recorded as cleaned
FailedContextDeletions == Len(contexts_to_clean) - Len(clResult.cleaned_contexts)

\* C21 as stated: every deletion is attempted once, in order, whatever failed before,
\* and each failed deletion, of a cluster or of a context, is an entry of errors
C21_EveryFailedDeletionCollected ==
    CleanupReturned =>
        /\ DeletionCmds = FullTeardown
        /\ Len(clResult.errors) = clFailed + FailedContextDeletions

\* C21 amended: every deletion is attempted once, in order, whatever failed before;
\* each failed cluster deletion is an entry of errors, a failed context deletion is
\* not recorded in errors
C21_BestEffortTeardown ==
    /\ CleanupReturned =>
          /\ DeletionCmds = FullTeardown
          /\ Len(clResult.errors) = clFailed
          /\ Len(clResult.cleaned_clusters) = Len(clusters) - clFailed
    /\ (dmPc \in { "clusters", "contexts" } /\ dmPlatform \in { "kind", "k3d" }) =>
          /\ Len(DeletionCmds) <= Len(FullTeardown)
          /\ DeletionCmds = SubSeq(FullTeardown, 1, Len(DeletionCmds))
          /\ Len(clResult.errors) = clFailed

\* C21 witness: a teardown that went through all five deletions although the first
\* two cluster deletions and the first context deletion failed
C21_Witness ==
    /\ CleanupReturned
    /\ clFailed = 2
    /\ clResult.cleaned_clusters = << "cluster2" >>
    /\ clResult.cleaned_contexts = << "cluster2" >>
    /\ Len(clResult.errors) = 2
    /\ DeletionCmds = FullTeardown

(***************************************************************************)
(* C22: what makes a tool installed                                        *)
(***************************************************************************)
\* the version command of the i-th tool was run: shutil.which found the tool
OnPath(i) == \E k \in DOMAIN prLog : prLog[k] = version_cmd[i]

\* the i-th tool has been checked
Checked(i) == i < prIdx

\* C22: a checked tool is installed exactly when it was found on the path and its
\* version command exited with 0; a tool on the path whose version command failed is
\* not installed, keeps its path, and is aggregated like an absent one: all_satisfied
\* is false and a required tool is in missing under its plain name, which an
\* installed tool never is.
C22_InstalledFollowsVersionCommand ==
    \A i \in DOMAIN tools :
        Checked(i) =>
            LET entry == prResults.checks[tools[i]]
            IN  /\ entry.installed <=> (OnPath(i) /\ prFound[tools[i]])
                /\ prFound[tools[i]] => OnPath(i)
                /\ (OnPath(i) /\ ~prFound[tools[i]]) =>
                      /\ ~entry.installed
                      /\ entry.path = PathOf(tools[i])
                /\ ~OnPath(i) => entry.path = NoPath
                /\ ~entry.installed => ~prResults.all_satisfied
                /\ tools[i] \in required_tools =>
                      (tools[i] \in Names(prResults.missing) <=> ~entry.installed)
                /\ tools[i] \notin required_tools => tools[i] \notin Names(prResults.missing)

\* C22 witness: a returned call in which docker was on the path and its version
\* command failed, and kubectl was not on the path: both are in missing
C22_Witness ==
    /\ prPc = "done"
    /\ OnPath(2) /\ ~prFound[Docker]
    /\ ~OnPath(1)
    /\ prResults.checks[Docker].path = PathOf(Docker)
    /\ ~prResults.checks[Docker].installed
    /\ prResults.checks[Kubectl].path = NoPath
    /\ SubSeq(prResults.missing, 1, 2) = << Kubectl, Docker >>

(***************************************************************************)
(* C23: the Go version gate                                                *)
(***************************************************************************)
\* a version line of the form `<word> <word> go<major>.<minor>[.<patch>] ...`, read
\* digit by digit
GoMajorMinor(version) ==
    LET none == [parsed |-> FALSE, major |-> 0, minor |-> 0]
        tokens == SplitWs(version)
        tok == tokens[3]
        parts == SplitDot(SubSeq(tok, 3, Len(tok)))
        IsNumber(p) == p # << >> /\ \A k \in DOMAIN p : IsAsciiDigit(p[k])
    IN  IF Len(tokens) < 3 THEN none
        ELSE IF Len(tok) < 3 \/ SubSeq(tok, 1, 2) # Go THEN none
        ELSE IF Len(parts) < 2 \/ ~IsNumber(parts[1]) \/ ~IsNumber(parts[2]) THEN none
        ELSE [parsed |-> TRUE, major |-> DecimalValue(parts[1]), minor |-> DecimalValue(parts[2])]

\* the step of check_prerequisites between the tool loop and the docker probe
GoGateStep == prPc = "tools" /\ prPc' = "docker"

\* C23: across the Go gate, an installed go whose version reads go<major>.<minor>
\* with major = 1 and minor < 19 gets all_satisfied false and the entry
\* "go (version 1.19+)" appended to missing; with any other version that reads, any
\* version that does not read, or go not installed, all_satisfied and missing are
\* as before, and the call goes on to the docker probe.
C23_GoVersionGate ==
    [][ GoGateStep =>
          LET go_check == prResults.checks[Go]
              v == GoMajorMinor(go_check.version)
          IN  IF go_check.installed /\ v.parsed /\ v.major = 1 /\ v.minor < 19
              THEN /\ ~prResults'.all_satisfied
                   /\ prResults'.missing = Append(prResults.missing, GoVersionEntry)
                   /\ prResults'.checks[Go].installed
              ELSE /\ prResults'.all_satisfied = prResults.all_satisfied
                   /\ prResults'.missing = prResults.missing
                   /\ prResults'.checks = prResults.checks ]_vars

\* C23 witness: the gate has fired on go 1.9.7 in a call in which every tool was
\* installed: the verdict it found true is now false
C23_Witness ==
    /\ prPc = "docker"
    /\ \A t \in Names(tools) : prFound[t]
    /\ GoMajorMinor(prResults.checks[Go].version).minor = 9
    /\ prResults.missing = << GoVersionEntry >>
    /\ ~prResults.all_satisfied

(***************************************************************************)
(* C27: the verdict, the missing list and the affirmative recommendation   *)
(***************************************************************************)
\* C27: in a returned prerequisites report all_satisfied is true exactly when
\* missing is empty, and the recommendation "All prerequisites are satisfied! ..."
\* appears only in a report whose all_satisfied is true.
C27_VerdictMatchesMissing ==
    prPc = "done" =>
        /\ prResults.all_satisfied <=> prResults.missing = << >>
        /\ (\E k \in DOMAIN prResults.recommendations :
                prResults.recommendations[k] = << AllSatisfiedText >>)
           => prResults.all_satisfied

(***************************************************************************)
(* C24, C25: the two KubectlHelper methods                                 *)
(***************************************************************************)
\* the positions of the newlines of a text
NewlineAt(s) == { i \in DOMAIN s : s[i] = "\n" }

\* the position of the k-th newline; 0 before the first line, Len + 1 after the last
Cut(s, k) ==
    IF k = 0 THEN 0
    ELSE IF k > Cardinality(NewlineAt(s)) THEN Len(s) + 1
    ELSE CHOOSE p \in NewlineAt(s) : Cardinality({ i \in NewlineAt(s) : i < p }) = k - 1

\* the k-th line of a text: what lies between two consecutive cuts
RawLine(s, k) == SubSeq(s, Cut(s, k - 1) + 1, Cut(s, k) - 1)

\* a line without its leading and trailing whitespace: from its first to its last
\* character that is not whitespace
Trimmed(l) ==
    LET solid == { i \in DOMAIN l : l[i] \notin { " ", "\t", "\r", "\n" } }
    IN  IF solid = {} THEN << >>
        ELSE SubSeq(l, CHOOSE i \in solid : \A j \in solid : i <= j,
                       CHOOSE i \in solid : \A j \in solid : i >= j)

\* the trimmed non-empty lines of a text, in order
TrimmedLines(s) ==
    SelectSeq([k \in 1..(Cardinality(NewlineAt(s)) + 1) |-> Trimmed(RawLine(s, k))],
              LAMBDA l : l # << >>)

\* C24: get_contexts returns the trimmed non-empty lines of stdout, in order, when
\* the command exits with 0, and the empty list when it does not: a failed command,
\* a timeout and a missing kubectl all give the empty list.
C24_ListContexts ==
    (khPc = "returned" /\ khCall.op = "get_contexts") =>
        khReturn.list = IF khCall.r.returncode = 0 THEN TrimmedLines(khCall.r.stdout)
                                                   ELSE << >>

\* C24 witness: a successful listing with padding and a blank line gave two trimmed
\* names in order
C24_Witness ==
    /\ khPc = "returned" /\ khCall.op = "get_contexts"
    /\ khCall.r = CommandResult(0, << " ", "b", "\n", "a" >>, EmptyText)
    /\ khReturn.list = << << "b" >>, << "a" >> >>

\* C25: check_namespace returns true exactly when the command exits with 0 and the
\* namespace name occurs literally in stdout; exit 0 with empty stdout, and any
\* other exit code, give false.
C25_NamespaceExists ==
    (khPc = "returned" /\ khCall.op = "check_namespace") =>
        LET ns == khCall.namespace
            out == khCall.r.stdout
            occurs == \E i \in 1..Len(out) :
                         /\ i + Len(ns) - 1 <= Len(out)
                         /\ \A j \in 1..Len(ns) : out[i + j - 1] = ns[j]
        IN  /\ khReturn.bool <=> (khCall.r.returncode = 0 /\ occurs)
            /\ out = << >> => ~khReturn.bool
            /\ khCall.r.returncode # 0 => ~khReturn.bool

\* C25 witness: the command exited with 0 and printed nothing, the ignore-missing
\* case: the namespace does not exist
C25_Witness ==
    /\ khPc = "returned" /\ khCall.op = "check_namespace"
    /\ khCall.r = CommandResult(0, EmptyText, EmptyText)
    /\ khCall.namespace = << "a", "b" >>
    /\ ~khReturn.bool

(***************************************************************************)
(* C26: the fields of a status report agree with each other                *)
(***************************************************************************)
\* C26: in every status report, returned or under construction, all_ready holds
\* exactly when context_found, wds1_namespace and its1_namespace all hold; a found
\* context is named, is one of compatible_contexts and has an accessible
\* cluster_info entry; every key of cluster_info is one of compatible_contexts.
C26_StatusReportConsistent ==
    LET compatible == { status.compatible_contexts[k] : k \in DOMAIN status.compatible_contexts }
    IN  /\ status.all_ready <=>
              (status.context_found /\ status.wds1_namespace /\ status.its1_namespace)
        /\ status.context_found =>
              /\ status.context # EmptyText
              /\ status.context \in compatible
              /\ status.context \in DOMAIN status.cluster_info
              /\ status.cluster_info[status.context].accessible
        /\ DOMAIN status.cluster_info \subseteq compatible

\* C26 witness: a returned report with a found context that lacks its1-system, and
\* a second compatible context that was not accessible
C26_Witness ==
    /\ scPc = "done"
    /\ status.context_found /\ ~status.all_ready
    /\ status.wds1_namespace /\ ~status.its1_namespace
    /\ Len(status.compatible_contexts) = 2
    /\ \E c \in DOMAIN status.cluster_info : ~status.cluster_info[c].accessible

(***************************************************************************)
(* C28: the counters of a diagnostics report                               *)
(***************************************************************************)
\* the checks counted so far
CountedChecks == diagnostics.summary.passed + diagnostics.summary.warnings
                 + diagnostics.summary.failures

\* C28: every check that has run, returned or raised, is in exactly one counter, so a
\* returned report has passed + warnings + failures = total_checks; a report whose
\* status is "healthy" has no issues and no recommendations.
C28_CountsConserved ==
    /\ dgPc = "loop" => CountedChecks = dgIdx - 1
    /\ dgPc = "done" =>
          /\ CountedChecks = diagnostics.summary.total_checks
          /\ diagnostics.summary.total_checks = Len(checks)
    /\ diagnostics.status = "healthy" =>
          /\ dgPc = "done"
          /\ diagnostics.issues_found = << >>
          /\ diagnostics.recommendations = << >>

\* C28 witness: a returned report in which checks passed, warned, failed and raised
C28_Witness ==
    /\ dgPc = "done"
    /\ diagnostics.summary.passed > 0
    /\ diagnostics.summary.warnings > 0
    /\ diagnostics.summary.failures > 1
    /\ dgRaised # << >>
    /\ CountedChecks = 7

(***************************************************************************)
(* C30: the summary of a cluster-info result                               *)
(***************************************************************************)
\* the entries of clusters that are accessible
AccessibleEntries ==
    { ctx \in DOMAIN cmResult.clusters : cmResult.clusters[ctx].accessible }

\* C30: in every returned result without an error, for the call without a context
\* and for the call with a listed context alike, kubestellar_contexts is the number
\* of entries of clusters, accessible_clusters the number of accessible entries, and
\* accessible_clusters <= kubestellar_contexts <= total_contexts.
C30_SummaryMatchesClusters ==
    (cmPc = "done" /\ "error" \notin DOMAIN cmResult) =>
        /\ cmResult.summary.kubestellar_contexts = Cardinality(DOMAIN cmResult.clusters)
        /\ cmResult.summary.accessible_clusters = Cardinality(AccessibleEntries)
        /\ cmResult.summary.accessible_clusters <= cmResult.summary.kubestellar_contexts
        /\ cmResult.summary.kubestellar_contexts <= cmResult.summary.total_contexts

(***************************************************************************)
(* C29: the accounting of a demo cleanup                                   *)
(***************************************************************************)
\* the clusters the entries of errors name
ClustersInErrors == { clResult.errors[k][2] : k \in DOMAIN clResult.errors }

\* C29: a cleanup that has returned for kind or k3d has every one of the three
\* clusters either in cleaned_clusters or in exactly one entry of errors, and its
\* success says whether any cluster was deleted; no context deletion, whatever its
\* outcome, changes success, errors or cleaned_clusters.
C29_CleanupAccounting ==
    /\ [](CleanupReturned =>
            /\ Len(clResult.cleaned_clusters) + Len(clResult.errors) = Len(clusters)
            /\ Names(clResult.cleaned_clusters) \cup ClustersInErrors = Names(clusters)
            /\ Names(clResult.cleaned_clusters) \cap ClustersInErrors = {}
            /\ clResult.success <=> clResult.cleaned_clusters # << >>)
    /\ [][ (dmPc = "contexts" /\ dmPc' = "contexts") =>
              /\ clResult'.success = clResult.success
              /\ clResult'.errors = clResult.errors
              /\ clResult'.cleaned_clusters = clResult.cleaned_clusters ]_vars

\* C29 witness: one cluster deletion and both context deletions failed, and the
\* cleanup still reports success with a single error
C29_Witness ==
    /\ CleanupReturned
    /\ clResult.cleaned_clusters = << "kubeflex", "cluster2" >>
    /\ ClustersInErrors = { "cluster1" }
    /\ clResult.cleaned_contexts = << >>
    /\ clResult.success

====
